---- MODULE Spec2Model ----
(***************************************************************************)
(* Model of the structural alignment and scoring scripts of the           *)
(* repository: RMSD_Q.py, RMSD_af.py (Affinity_RMSD_caculate) and          *)
(* vis_rmde.py (Dataset_info/vis_protein_rmsd).                            *)
(*                                                                         *)
(* Coordinates are 3-vectors of integers (lattice units).  Every input     *)
(* coordinate sequence lies on a line parallel to a coordinate axis, so    *)
(* that the least-squares rotation is one of the 24 lattice rotations and  *)
(* the squared RMSD is an exact rational number.                           *)
(***************************************************************************)
EXTENDS Integers, Sequences, FiniteSets, TLC

VARIABLES
    pc,          \* control location of the modelled script
    ref_atoms,   \* compute_rmsd: first argument (list of coordinates)
    alt_atoms,   \* compute_rmsd: second argument (list of coordinates)
    rmsd_val,    \* compute_rmsd: returned value
    pdb_file,    \* the real structure file: its residues in file order
    chain_id,    \* windowed extraction: the chain asked for
    start_res,   \* windowed extraction: first residue number of the window
    end_res,     \* windowed extraction: last residue number of the window
    coords,      \* parse_real_pdb: returned list
    ca_atoms,    \* extract_ca_atoms: returned list, or the exception raised
    pdbqt_file,  \* the predicted pdbqt file: its lines in file order
    length,      \* parse_pdbqt: the expected segment length
    pred_coords, \* parse_pdbqt: returned list
    lines_read,  \* parse_pdbqt: lines taken from the file iterator
    driver,      \* the batch driver running: "Q" (RMSD_Q.py) or "af" (RMSD_af.py)
    n_records,   \* main: number of entries of the dictionary iterated over
    rec,         \* main: the entry processed last, with its files
    parsed,      \* main: the files the last turn of the loop parsed
    n_done,      \* main: entries the for loop has gone through
    outf,        \* main: the result lines written so far
    pred_structure, \* vis_rmde.main: the atoms of the predicted structure
    pred_scale,  \* the coordinates of pred_structure are coord / pred_scale
    ref_ca_atoms,   \* vis_rmde.main: CA atoms of the reference fragment
    pred_ca_atoms,  \* vis_rmde.main: CA atoms of the predicted fragment
    sup,         \* vis_rmde.main: the Superimposer after set_atoms
    aligned_fragment, \* vis_rmde.main: the structure read back from the fragment
    output_file, \* vis_rmde.main: the content of OUTPUT_FILE
    temp_file,   \* the file "temp_fragment.pdb" of the working directory
    conc_pc,     \* extract_fragment_structure: position of each invocation
    conc_in,     \* extract_fragment_structure: arguments of each invocation
    conc_out,    \* extract_fragment_structure: fragment_struct of each invocation
    run_data,    \* docking_result: per protein folder, the averages of its runs
    summary_files, \* docking_result: per protein folder, its summary.txt
    results,     \* summary.gather_summaries: the dict of final averages
    report,      \* summary.write_combined_report: the combined report
    cmp_script,  \* comparison script running: "docking_%" or "rmsd_%"
    quantum_file, \* comparison: lines of QUANTUM_FILE
    other_file,  \* comparison: lines of AF2_FILE / AF3_FILE
    index_file,  \* docking_%: lines of INDEX_FILE
    cmp_all,     \* comparison: lines of the overall output file
    cmp_groups,  \* docking_%: lines of the S, M and L output files
    n_lines,     \* interaction_aa: data lines of the benchmark file read so far
    sequences,   \* interaction_aa: number of sequences found so far
    last_seq,    \* interaction_aa: the sequence aggregated last
    inter_set,   \* interaction_aa: get_interactions_from_sequence(last_seq)
    interaction_counter, \* interaction_aa: the Counter of interactions
    inter_file,  \* lines of interactions_summary.txt
    matrix,      \* plt_inter: the interaction matrix
    all_fragments,      \* vqe_prediction.main: the fragments of the TXT file
    max_fragments,      \* vqe_prediction: the max_count handed over
    selected_fragments, \* vqe_prediction.main: pick_unique_fragments' result
    log_files,    \* read_log.main: the files of LOG_FOLDER in listing order
    n_parsed,     \* read_log.main: files of the listing handled so far
    summary_dict, \* read_log.main: pdb_id -> fragment
    log_summary   \* lines of log/log_summary.txt

alignVars == <<ref_atoms, alt_atoms, rmsd_val>>
extractVars == <<pdb_file, chain_id, start_res, end_res, coords, ca_atoms>>
pdbqtVars == <<pdbqt_file, length, pred_coords, lines_read>>
mainVars == <<driver, n_records, rec, parsed, n_done, outf>>
visVars == <<pred_structure, pred_scale, ref_ca_atoms, pred_ca_atoms, sup,
            aligned_fragment, output_file>>

concVars == <<conc_pc, conc_in, conc_out>>

sumVars == <<run_data, summary_files, results, report>>

cmpVars == <<cmp_script, quantum_file, other_file, index_file, cmp_all, cmp_groups>>

interVars == <<n_lines, sequences, last_seq, inter_set, interaction_counter,
              inter_file, matrix>>

predVars == <<all_fragments, max_fragments, selected_fragments, log_files,
             n_parsed, summary_dict, log_summary>>

toolVars == <<sumVars, cmpVars, interVars, predVars>>

vars == <<pc, alignVars, extractVars, pdbqtVars, mainVars, visVars, temp_file,
          concVars, toolVars>>

(***************************************************************************)
(* Bounds of the model.                                                    *)
(***************************************************************************)
MaxAtoms == 2      \* longest coordinate list handed to compute_rmsd
MaxCoord == 1      \* largest offset of a point along its line
MaxModels == 2     \* models (MODEL records) of a structure file
MaxResSeq == 2     \* largest residue sequence number
MaxResidues == 2   \* residues of a structure file
MaxLines == 3      \* lines of a pdbqt file
MaxBatch == 2      \* entries of the top list / benchmark index
MaxRigidAtoms == 3 \* longest list moved rigidly before compute_rmsd
MaxRigidCoord == 2 \* largest offset of a point of such a list
MaxProteins == 2   \* protein folders under ROOT_DIR
MaxRuns == 2       \* runs of a protein folder that yield averages
MaxSeqLen == 3     \* longest residue sequence of the benchmark file
MaxBenchLines == 2 \* data lines of the benchmark file

(***************************************************************************)
(* Python values.                                                          *)
(***************************************************************************)
None == [kind |-> "None"]
NoValue == [kind |-> "unset"]   \* a variable the script has not assigned yet
Raise(exc) == [kind |-> "raise", exc |-> exc]
List(items) == [kind |-> "list", items |-> items]

(***************************************************************************)
(* Vector and matrix arithmetic on integer 3-vectors.                      *)
(***************************************************************************)
Axes == 1..3

VAdd(a, b) == [i \in Axes |-> a[i] + b[i]]
VSub(a, b) == [i \in Axes |-> a[i] - b[i]]
VScale(n, a) == [i \in Axes |-> n * a[i]]
Dot(a, b) == a[1] * b[1] + a[2] * b[2] + a[3] * b[3]
Zero3 == <<0, 0, 0>>
Unit(ax) == [i \in Axes |-> IF i = ax THEN 1 ELSE 0]

RECURSIVE SumVec(_)
SumVec(s) == IF s = <<>> THEN Zero3 ELSE VAdd(Head(s), SumVec(Tail(s)))

RECURSIVE SumInt(_)
SumInt(s) == IF s = <<>> THEN 0 ELSE Head(s) + SumInt(Tail(s))

\* row vector times matrix, as numpy.dot(v, m)
VecMat(v, m) == [i \in Axes |-> v[1] * m[1][i] + v[2] * m[2][i] + v[3] * m[3][i]]

\* coordinates left where they are, times Len(s)
Centered_about_origin(s) == [n \in 1..Len(s) |-> VScale(Len(s), s[n])]

\* the coordinates minus their centroid, times Len(s) (to stay in integers)
Centered(s) == [n \in 1..Len(s) |-> VSub(VScale(Len(s), s[n]), SumVec(s))]

\* sum of the squared norms of a list of vectors
SqNorm(s) == SumInt([n \in 1..Len(s) |-> Dot(s[n], s[n])])

\* cross-covariance matrix  transpose(moving) . fixed  of two centred lists
Cov(mov, fix) ==
    [j \in Axes |-> [i \in Axes |->
        SumInt([n \in 1..Len(mov) |-> mov[n][j] * fix[n][i]])]]

(***************************************************************************)
(* The proper rotations of the lattice: signed permutation matrices of     *)
(* determinant +1.                                                         *)
(***************************************************************************)
Det(m) ==
      m[1][1] * (m[2][2] * m[3][3] - m[2][3] * m[3][2])
    - m[1][2] * (m[2][1] * m[3][3] - m[2][3] * m[3][1])
    + m[1][3] * (m[2][1] * m[3][2] - m[2][2] * m[3][1])

Identity == [j \in Axes |-> Unit(j)]

SignedPerms ==
    { [j \in Axes |-> VScale(sg[j], Unit(p[j]))] :
        p \in { q \in [Axes -> Axes] : \A a, b \in Axes : q[a] = q[b] => a = b },
        sg \in [Axes -> {-1, 1}] }

Rotations == { m \in SignedPerms : Det(m) = 1 }

\* trace(transpose(rot) . h): the correlation a rotation achieves
Corr(rot, h) ==
    SumInt([k \in 1..9 |-> rot[((k - 1) \div 3) + 1][((k - 1) % 3) + 1]
                           * h[((k - 1) \div 3) + 1][((k - 1) % 3) + 1]])

RECURSIVE MaxOf(_)
MaxOf(S) ==
    LET x == CHOOSE y \in S : TRUE
    IN IF S = {x} THEN x
       ELSE LET m == MaxOf(S \ {x}) IN IF x > m THEN x ELSE m

(***************************************************************************)
(* Bio.PDB.Superimposer.set_atoms(fixed, moving): the least-squares        *)
(* superposition of the moving list onto the fixed list.  Both lists are   *)
(* centred, the rotation maximising the correlation with the covariance    *)
(* matrix is taken, and rms is the residual of the rotated moving list.    *)
(* The squared rms is kept as the exact fraction sq_num / sq_den.          *)
(***************************************************************************)
PDBException == Raise("PDBException")
ZeroDivisionError == Raise("ZeroDivisionError")

\* a superposition that translates but never rotates
MaxCorr_translation_only(h) == Corr(Identity, h)

MaxCorr(h) == MaxOf({ Corr(rot, h) : rot \in Rotations })

\* the rotations the superposition may return: any maximiser (the singular
\* value decomposition of a rank-deficient matrix is not unique)
BestRotations(fixed, moving) ==
    LET h == Cov(Centered(moving), Centered(fixed))
    IN { rot \in Rotations : Corr(rot, h) = MaxCorr(h) }

\* The library takes the rotation from the singular value decomposition
\* of the covariance matrix: first the best orthogonal matrix, reflections
\* included ...
NaiveRotations(fixed, moving) ==
    LET h == Cov(Centered(moving), Centered(fixed))
        best == MaxOf({ Corr(m, h) : m \in SignedPerms })
    IN { m \in SignedPerms : Corr(m, h) = best }

\* negate row j of a matrix
FlipRow(m, j) == [i \in Axes |-> IF i = j THEN VScale(-1, m[i]) ELSE m[i]]

\* ... then, when its determinant is negative, the component of the smallest
\* singular value is negated (any of them when several are smallest)
ReflectionCorrection_skipped(rot, h) == {rot}

ReflectionCorrection(rot, h) ==
    IF Det(rot) > 0 THEN {rot}
    ELSE { FlipRow(rot, j) :
             j \in { i \in Axes : \A k \in Axes :
                                    Dot(rot[i], h[i]) <= Dot(rot[k], h[k]) } }

\* the rotation held by the Superimposer after set_atoms
Rotran(fixed, moving) ==
    LET h == Cov(Centered(moving), Centered(fixed))
    IN UNION { ReflectionCorrection(rot, h) : rot \in NaiveRotations(fixed, moving) }

\* a superposition that forgets to centre the moving list
Superimposer_moving_not_centred(fixed, moving) ==
    IF Len(fixed) # Len(moving) THEN PDBException
    ELSE IF Len(fixed) = 0 THEN ZeroDivisionError
    ELSE LET n == Len(fixed)
             fc == Centered(fixed)
             mc == [k \in 1..n |-> VScale(n, moving[k])]
         IN [kind |-> "rms",
             sq_num |-> SqNorm(fc) + SqNorm(mc) - 2 * MaxCorr(Cov(mc, fc)),
             sq_den |-> n * n * n]

Superimposer(fixed, moving) ==
    IF Len(fixed) # Len(moving) THEN PDBException
    ELSE IF Len(fixed) = 0 THEN ZeroDivisionError
    ELSE LET n == Len(fixed)
             fc == Centered(fixed)
             mc == Centered(moving)
         IN [kind |-> "rms",
             sq_num |-> SqNorm(fc) + SqNorm(mc) - 2 * MaxCorr(Cov(mc, fc)),
             sq_den |-> n * n * n]

(***************************************************************************)
(* compute_rmsd(ref_atoms, alt_atoms) of RMSD_Q.py (RMSD_af.py has the     *)
(* same body): None on unequal or empty lists, otherwise sup.rms.  The     *)
(* coordinate tuples are wrapped in fresh DummyAtom objects; the arguments *)
(* are only read.                                                          *)
(***************************************************************************)
compute_rmsd_no_empty_check(ref, alt) ==
    IF Len(ref) # Len(alt) THEN None ELSE Superimposer(ref, alt)

compute_rmsd_single_point_rejected(ref, alt) ==
    IF Len(ref) # Len(alt) \/ Len(ref) <= 1 THEN None ELSE Superimposer(ref, alt)

compute_rmsd_zero_variance_rejected(ref, alt) ==
    IF Len(ref) # Len(alt) \/ Len(ref) = 0 THEN None
    ELSE IF \A n \in 1..Len(alt) : alt[n] = alt[1] THEN None
    ELSE Superimposer(ref, alt)

compute_rmsd(ref, alt) ==
    IF Len(ref) # Len(alt) \/ Len(ref) = 0 THEN None ELSE Superimposer(ref, alt)

(***************************************************************************)
(* Inputs: coordinate lists whose points lie on a line parallel to an      *)
(* axis, starting from one of two base points.                             *)
(***************************************************************************)
Bases == {Zero3, <<5, 5, 5>>}

AxisLists(maxlen) ==
    {<<>>} \cup
    UNION { { [n \in 1..len |-> VAdd(base, VScale(k[n], Unit(ax)))] :
                base \in Bases, ax \in Axes, k \in [1..len -> 0..MaxCoord] } :
            len \in 1..maxlen }

\* the variables of a script that is not running keep these values
AlignIdle == ref_atoms = <<>> /\ alt_atoms = <<>> /\ rmsd_val = NoValue

ExtractIdle ==
    /\ pdb_file = <<>> /\ chain_id = "A" /\ start_res = 1 /\ end_res = 1
    /\ coords = NoValue /\ ca_atoms = NoValue

PdbqtIdle ==
    /\ pdbqt_file = <<>> /\ length = 1
    /\ pred_coords = NoValue /\ lines_read = 0

MainIdle ==
    /\ driver = "Q" /\ n_records = 0 /\ rec = NoValue /\ parsed = {}
    /\ n_done = 0 /\ outf = <<>>

Absent == [exists |-> FALSE, content |-> <<>>]

ConcIdle == conc_pc = <<>> /\ conc_in = <<>> /\ conc_out = <<>>

VisIdle ==
    /\ pred_structure = <<>> /\ pred_scale = 1
    /\ ref_ca_atoms = NoValue /\ pred_ca_atoms = NoValue /\ sup = NoValue
    /\ aligned_fragment = NoValue /\ output_file = Absent
    /\ temp_file = Absent /\ ConcIdle

SumIdle ==
    /\ run_data = <<>> /\ summary_files = <<>>
    /\ results = <<>> /\ report = <<>>

CmpIdle ==
    /\ cmp_script = "rmsd_%" /\ quantum_file = <<>> /\ other_file = <<>>
    /\ index_file = <<>> /\ cmp_all = <<>> /\ cmp_groups = <<>>

InterIdle ==
    /\ n_lines = 0 /\ sequences = 0 /\ last_seq = <<>> /\ inter_set = {}
    /\ interaction_counter = <<>> /\ inter_file = Absent /\ matrix = NoValue

PredIdle ==
    /\ all_fragments = <<>> /\ max_fragments = 0 /\ selected_fragments = NoValue
    /\ log_files = <<>> /\ n_parsed = 0 /\ summary_dict = <<>>
    /\ log_summary = Absent

ToolsIdle == SumIdle /\ CmpIdle /\ InterIdle /\ PredIdle

(***************************************************************************)
(* SpecAlign: one call of compute_rmsd on arbitrary bounded inputs.        *)
(***************************************************************************)
InitAlign ==
    /\ pc = "call"
    /\ ref_atoms \in AxisLists(MaxAtoms)
    /\ alt_atoms \in AxisLists(MaxAtoms)
    /\ rmsd_val = NoValue
    /\ ExtractIdle /\ PdbqtIdle /\ MainIdle /\ VisIdle /\ ToolsIdle

ComputeRmsd ==
    /\ pc = "call"
    /\ rmsd_val' = compute_rmsd(ref_atoms, alt_atoms)
    /\ pc' = "returned"
    /\ UNCHANGED <<ref_atoms, alt_atoms, extractVars, pdbqtVars, mainVars, visVars, temp_file, concVars, toolVars>>

NextAlign == ComputeRmsd

SpecAlign == InitAlign /\ [][NextAlign]_vars

IsRms(v) == v.kind = "rms"

AllSame(s) == \A n \in 1..Len(s) : s[n] = s[1]

\* C1: compute_rmsd returns None, and raises nothing, whenever the two lists
\* have different lengths or either one is empty.
C1_NoResultOnMismatchOrEmpty ==
    (pc = "returned"
        /\ (Len(ref_atoms) # Len(alt_atoms) \/ ref_atoms = <<>> \/ alt_atoms = <<>>))
    => rmsd_val = None

C1_Witness ==
    pc = "returned" /\ ref_atoms = <<>> /\ alt_atoms = <<>> /\ rmsd_val = None

\* C8: on lists of equal, non-zero length compute_rmsd returns a value (not
\* None, not an exception) whose square is a non-negative fraction; this
\* includes single-point and zero-variance inputs.
C8_ResultOnEqualLengths ==
    (pc = "returned" /\ Len(ref_atoms) = Len(alt_atoms) /\ Len(ref_atoms) > 0)
    => /\ IsRms(rmsd_val)
       /\ rmsd_val.sq_num >= 0
       /\ rmsd_val.sq_den > 0

C8_Witness ==
    /\ pc = "returned"
    /\ Len(ref_atoms) = 1 /\ Len(alt_atoms) = 1
    /\ ref_atoms # alt_atoms
    /\ IsRms(rmsd_val)

(***************************************************************************)
(* Structure files.  A file is the list of its residues in file order;     *)
(* each residue carries the model (MODEL record) and chain it is in, its   *)
(* sequence number, whether it has a CA atom, and that atom's serial       *)
(* number and position.  Two residues of a chain with the same sequence    *)
(* number differ in their insertion code.  The CA of the i-th residue of   *)
(* a file has serial number i and sits at <<i, 0, 0>>, so every position   *)
(* of a file is different.                                                 *)
(***************************************************************************)
ChainIds == {"A", "B"}

ResidueShapes ==
    [model : 1..MaxModels, chain : ChainIds, resseq : 1..MaxResSeq,
     has_ca : BOOLEAN]

WithCoord(shape, i) ==
    [model |-> shape.model, chain |-> shape.chain, resseq |-> shape.resseq,
     has_ca |-> shape.has_ca, serial |-> i, coord |-> <<i, 0, 0>>]

\* tuple(atom.coord) of a list of atoms
CoordsOf(entries) == [n \in 1..Len(entries) |-> entries[n].coord]

\* the models of a file follow each other
PdbFiles ==
    UNION { { [i \in 1..len |-> WithCoord(f[i], i)] :
                f \in { g \in [1..len -> ResidueShapes] :
                          \A i \in 1..len - 1 : g[i].model <= g[i + 1].model } } :
            len \in 1..MaxResidues }

\* the first occurrences of the elements of a list, in order
RECURSIVE Distinct(_)
Distinct(s) ==
    IF s = <<>> THEN <<>>
    ELSE LET init == Distinct(SubSeq(s, 1, Len(s) - 1))
             last == s[Len(s)]
         IN IF \E n \in 1..Len(init) : init[n] = last
            THEN init ELSE Append(init, last)

(***************************************************************************)
(* PDBParser.get_structure: the hierarchy structure -> model -> chain ->   *)
(* residue the scripts iterate over.  Models come in file order, the       *)
(* chains of a model in the order of their first residue, the residues of  *)
(* a chain in file order.                                                  *)
(***************************************************************************)
get_structure(file) ==
    LET modelsOf == Distinct([i \in 1..Len(file) |-> file[i].model])
        InModel(m) == LET Test(e) == e.model = m IN SelectSeq(file, Test)
        chainsOf(m) ==
            Distinct([i \in 1..Len(InModel(m)) |-> InModel(m)[i].chain])
        residuesOf(m, c) ==
            LET Test(e) == e.chain = c IN SelectSeq(InModel(m), Test)
    IN [k \in 1..Len(modelsOf) |->
          [j \in 1..Len(chainsOf(modelsOf[k])) |->
              [id |-> chainsOf(modelsOf[k])[j],
               residues |-> residuesOf(modelsOf[k], chainsOf(modelsOf[k])[j])]]]

\* for residue in chain: if start_res <= res_id <= end_res: if "CA" in
\* residue: append residue["CA"]
RECURSIVE ResiduesLoop(_, _, _)
ResiduesLoop(residues, start, end) ==
    IF residues = <<>> THEN <<>>
    ELSE LET residue == Head(residues)
         IN (IF start <= residue.resseq /\ residue.resseq <= end /\ residue.has_ca
             THEN <<residue>> ELSE <<>>)
            \o ResiduesLoop(Tail(residues), start, end)

\* for chain in model: if chain.get_id() == chain_id: ...
RECURSIVE ChainsLoop(_, _, _, _)
ChainsLoop(chains, cid, start, end) ==
    IF chains = <<>> THEN <<>>
    ELSE (IF Head(chains).id = cid
          THEN ResiduesLoop(Head(chains).residues, start, end) ELSE <<>>)
         \o ChainsLoop(Tail(chains), cid, start, end)

\* for model in structure: ...
RECURSIVE ModelsLoop(_, _, _, _)
ModelsLoop(models, cid, start, end) ==
    IF models = <<>> THEN <<>>
    ELSE ChainsLoop(Head(models), cid, start, end)
         \o ModelsLoop(Tail(models), cid, start, end)

(***************************************************************************)
(* parse_real_pdb(pdb_path, chain_id, start_res, end_res) of RMSD_Q.py     *)
(* (RMSD_af.py has the same body).                                         *)
(***************************************************************************)
parse_real_pdb_first_model_only(file, cid, start, end) ==
    LET structure == get_structure(file)
    IN IF structure = <<>> THEN <<>>
       ELSE CoordsOf(ChainsLoop(structure[1], cid, start, end))

parse_real_pdb(file, cid, start, end) ==
    CoordsOf(ModelsLoop(get_structure(file), cid, start, end))

(***************************************************************************)
(* extract_ca_atoms(structure, chain_id, start_res, end_res) of            *)
(* vis_rmde.py: the list of the CA atoms themselves.  structure[0] and     *)
(* model[chain_id] raise KeyError when the model or the chain does not     *)
(* exist.                                                                  *)
(***************************************************************************)
extract_ca_atoms(structure, cid, start, end) ==
    IF structure = <<>> THEN Raise("KeyError")
    ELSE LET model == structure[1]
             Named(c) == c.id = cid
         IN IF SelectSeq(model, Named) = <<>> THEN Raise("KeyError")
            ELSE List(ResiduesLoop(SelectSeq(model, Named)[1].residues, start, end))

(***************************************************************************)
(* SpecExtract: parse_real_pdb and extract_ca_atoms called on the same     *)
(* file, chain and window.                                                 *)
(***************************************************************************)
InitExtract ==
    /\ pc = "parse_real_pdb"
    /\ pdb_file \in PdbFiles
    /\ chain_id \in ChainIds
    /\ start_res \in 1..MaxResSeq
    /\ end_res \in 1..MaxResSeq
    /\ start_res <= end_res
    /\ coords = NoValue
    /\ ca_atoms = NoValue
    /\ AlignIdle /\ PdbqtIdle /\ MainIdle /\ VisIdle /\ ToolsIdle

ParseRealPdb ==
    /\ pc = "parse_real_pdb"
    /\ coords' = List(parse_real_pdb(pdb_file, chain_id, start_res, end_res))
    /\ pc' = "extract_ca_atoms"
    /\ UNCHANGED <<pdb_file, chain_id, start_res, end_res, ca_atoms, alignVars,
                   pdbqtVars, mainVars, visVars, temp_file, concVars, toolVars>>

ExtractCaAtoms ==
    /\ pc = "extract_ca_atoms"
    /\ ca_atoms' = extract_ca_atoms(get_structure(pdb_file), chain_id,
                                    start_res, end_res)
    /\ pc' = "returned"
    /\ UNCHANGED <<pdb_file, chain_id, start_res, end_res, coords, alignVars,
                   pdbqtVars, mainVars, visVars, temp_file, concVars, toolVars>>

NextExtract == ParseRealPdb \/ ExtractCaAtoms

SpecExtract == InitExtract /\ [][NextExtract]_vars

\* the residues of the window in the named chain of the first model that
\* have a CA atom, in file order
InWindow(file, cid, start, end) ==
    LET Test(e) == /\ e.model = file[1].model
                   /\ e.chain = cid
                   /\ start <= e.resseq /\ e.resseq <= end
                   /\ e.has_ca
    IN SelectSeq(file, Test)

WindowCoords == CoordsOf(InWindow(pdb_file, chain_id, start_res, end_res))

ChainExists == \E i \in 1..Len(pdb_file) : pdb_file[i].chain = chain_id

\* the model of the file the residue with CA position c is in
ModelOfCoord(c) == pdb_file[c[1]].model

FromFirstModel(items) ==
    \A n \in 1..Len(items) : ModelOfCoord(items[n]) = pdb_file[1].model

\* C2: windowed extraction (parse_real_pdb, extract_ca_atoms) returns exactly
\* the CA positions of the residues of the named chain whose sequence number
\* lies in [start_res, end_res], one per residue that has a CA atom, in file
\* order; residues without CA are skipped without error.
C2_WindowedExtraction ==
    /\ coords.kind # "unset" => coords = List(WindowCoords)
    /\ ca_atoms.kind = "list" => CoordsOf(ca_atoms.items) = WindowCoords

\* C2 on files with a single model
C2_SingleModel ==
    (\A i \in 1..Len(pdb_file) : pdb_file[i].model = pdb_file[1].model)
    => C2_WindowedExtraction

\* C3: only the first model is used: residues of the second and later models
\* contribute no coordinate to the result of parse_real_pdb or
\* extract_ca_atoms.
C3_FirstModelOnly ==
    /\ coords.kind = "list" => FromFirstModel(coords.items)
    /\ ca_atoms.kind = "list" => FromFirstModel(CoordsOf(ca_atoms.items))

\* C4: windowed extraction with a chain identifier that matches no chain of
\* the structure fails with an error; it does not return an empty list.
C4_ChainNotFound ==
    ~ChainExists =>
        /\ coords.kind # "unset" => coords.kind = "raise"
        /\ ca_atoms.kind # "unset" => ca_atoms.kind = "raise"

(***************************************************************************)
(* pdbqt files.  A line is described by what parse_pdbqt tests: whether it *)
(* starts with "ATOM", whether it contains " CA ", whether its fields 6-8  *)
(* parse as floats, its residue-number field and its position.  The        *)
(* position of the i-th line is <<0, i, 0>>.                               *)
(***************************************************************************)
LineShapes ==
    { [is_atom |-> FALSE, has_ca |-> TRUE, parses |-> TRUE, resseq |-> 0],
      [is_atom |-> TRUE, has_ca |-> FALSE, parses |-> TRUE, resseq |-> 0],
      [is_atom |-> TRUE, has_ca |-> TRUE, parses |-> FALSE, resseq |-> 0] }
    \cup [is_atom : {TRUE}, has_ca : {TRUE}, parses : {TRUE},
          resseq : 0..MaxResSeq]

LineAt(shape, i) ==
    [is_atom |-> shape.is_atom, has_ca |-> shape.has_ca,
     parses |-> shape.parses, resseq |-> shape.resseq, coord |-> <<0, i, 0>>]

PdbqtFiles ==
    UNION { { [i \in 1..len |-> LineAt(f[i], i)] : f \in [1..len -> LineShapes] } :
            len \in 0..MaxLines }

(***************************************************************************)
(* parse_pdbqt(pdbqt_path, length) of RMSD_Q.py (RMSD_af.py has the same   *)
(* body).  The loop is unrolled from line i with the coordinates collected *)
(* so far; current_ca_count is Len(acc).                                   *)
(***************************************************************************)
RECURSIVE PdbqtLoopCountsBadLines(_, _, _, _, _)
PdbqtLoopCountsBadLines(lines, i, acc, count, len) ==
    IF i > Len(lines) THEN [items |-> acc, read |-> Len(lines)]
    ELSE IF ~lines[i].is_atom THEN PdbqtLoopCountsBadLines(lines, i + 1, acc, count, len)
    ELSE IF ~lines[i].has_ca THEN PdbqtLoopCountsBadLines(lines, i + 1, acc, count, len)
    ELSE IF ~lines[i].parses
         THEN IF count + 1 >= len THEN [items |-> acc, read |-> i]
              ELSE PdbqtLoopCountsBadLines(lines, i + 1, acc, count + 1, len)
    ELSE IF count + 1 >= len
         THEN [items |-> Append(acc, lines[i].coord), read |-> i]
         ELSE PdbqtLoopCountsBadLines(lines, i + 1, Append(acc, lines[i].coord),
                                      count + 1, len)

RECURSIVE PdbqtLoop(_, _, _, _, _)
PdbqtLoop(lines, i, acc, count, len) ==
    IF i > Len(lines) THEN [items |-> acc, read |-> Len(lines)]
    ELSE IF ~lines[i].is_atom THEN PdbqtLoop(lines, i + 1, acc, count, len)
    ELSE IF ~lines[i].has_ca THEN PdbqtLoop(lines, i + 1, acc, count, len)
    ELSE IF ~lines[i].parses THEN PdbqtLoop(lines, i + 1, acc, count, len)
    ELSE IF count + 1 >= len
         THEN [items |-> Append(acc, lines[i].coord), read |-> i]
         ELSE PdbqtLoop(lines, i + 1, Append(acc, lines[i].coord), count + 1, len)

parse_pdbqt_counts_bad_lines(lines, len) ==
    PdbqtLoopCountsBadLines(lines, 1, <<>>, 0, len)

parse_pdbqt(lines, len) == PdbqtLoop(lines, 1, <<>>, 0, len)

(***************************************************************************)
(* SpecPdbqt: one call of parse_pdbqt.                                     *)
(***************************************************************************)
InitPdbqt ==
    /\ pc = "parse_pdbqt"
    /\ pdbqt_file \in PdbqtFiles
    /\ length \in 0..MaxLines
    /\ pred_coords = NoValue
    /\ lines_read = 0
    /\ AlignIdle /\ ExtractIdle /\ MainIdle /\ VisIdle /\ ToolsIdle

ParsePdbqt ==
    /\ pc = "parse_pdbqt"
    /\ pred_coords' = List(parse_pdbqt(pdbqt_file, length).items)
    /\ lines_read' = parse_pdbqt(pdbqt_file, length).read
    /\ pc' = "returned"
    /\ UNCHANGED <<pdbqt_file, length, alignVars, extractVars, mainVars, visVars, temp_file, concVars, toolVars>>

NextPdbqt == ParsePdbqt

SpecPdbqt == InitPdbqt /\ [][NextPdbqt]_vars

\* the CA ATOM lines with parseable coordinates, in file order
IsCaLine(line) == line.is_atom /\ line.has_ca /\ line.parses

CaLines(lines) == SelectSeq(lines, IsCaLine)

Min(a, b) == IF a <= b THEN a ELSE b

\* the number of lines up to and including the n-th CA line
LinesUpTo(lines, n) ==
    CHOOSE i \in 1..Len(lines) :
        IsCaLine(lines[i]) /\ Len(CaLines(SubSeq(lines, 1, i))) = n

\* C5: with length N >= 1 parse_pdbqt returns exactly the first min(N, k)
\* parseable CA ATOM entries in file order (k their number), whatever their
\* residue-number fields; it reads no line after the N-th entry, and CA lines
\* that do not parse are skipped without counting toward N.
C5_PositionalExtraction ==
    (pc = "returned" /\ length >= 1)
    => LET ca == CaLines(pdbqt_file)
           n == Min(length, Len(ca))
       IN /\ pred_coords = List(CoordsOf(SubSeq(ca, 1, n)))
          /\ lines_read = IF Len(ca) >= length
                          THEN LinesUpTo(pdbqt_file, length)
                          ELSE Len(pdbqt_file)

\* one entry asked for: the CA line that does not parse is skipped, the next
\* CA line is taken although its residue number is not the first, and the
\* third line is not read
C5_Witness ==
    /\ pc = "returned" /\ length = 1
    /\ Len(pdbqt_file) = 3
    /\ pdbqt_file[1].is_atom /\ pdbqt_file[1].has_ca /\ ~pdbqt_file[1].parses
    /\ IsCaLine(pdbqt_file[2]) /\ pdbqt_file[2].resseq = MaxResSeq
    /\ IsCaLine(pdbqt_file[3])
    /\ pred_coords = List(<<pdbqt_file[2].coord>>)
    /\ lines_read = 2

(***************************************************************************)
(* f"{rmsd_val:.3f}": the rms rounded to thousandths, as an integer number *)
(* of thousandths.  r is the rounding of 1000 * sqrt(num / den) when       *)
(* (2r - 1)^2 * den <= 4000000 * num < (2r + 1)^2 * den.  For rms below 10.*)
(***************************************************************************)
RECURSIVE GCD(_, _)
GCD(a, b) == IF b = 0 THEN a ELSE GCD(b, a % b)

\* the least r in lo..hi with 4000000 * num < (2r + 1)^2 * den
RECURSIVE LeastAbove(_, _, _, _)
LeastAbove(lo, hi, num, den) ==
    IF lo >= hi THEN lo
    ELSE LET mid == (lo + hi) \div 2
         IN IF 4000000 * num < (2 * mid + 1) * (2 * mid + 1) * den
            THEN LeastAbove(lo, mid, num, den)
            ELSE LeastAbove(mid + 1, hi, num, den)

Thousandths(v) ==
    LET g == GCD(v.sq_num, v.sq_den)
    IN LeastAbove(0, 10000, v.sq_num \div g, v.sq_den \div g)

(***************************************************************************)
(* The entries the batch drivers iterate over.  An entry stands for one    *)
(* pdb_id: whether the benchmark index has it, its chain and residue       *)
(* range, and the predicted and the real file found under its name.  The   *)
(* pdb_id of the i-th entry is i (dictionary keys are distinct).           *)
(***************************************************************************)
CaLine == [is_atom |-> TRUE, has_ca |-> TRUE, parses |-> TRUE, resseq |-> 0]
HetLine == [is_atom |-> TRUE, has_ca |-> FALSE, parses |-> TRUE, resseq |-> 0]

BatchPdbqt ==
    { [i \in 1..Len(f) |-> LineAt(f[i], i)] :
        f \in { <<>>, <<CaLine>>, <<CaLine, CaLine>>, <<CaLine, HetLine, CaLine>> } }

Res(m, n, ca) == [model |-> m, chain |-> "A", resseq |-> n, has_ca |-> ca]

BatchPdb ==
    { [i \in 1..Len(f) |-> WithCoord(f[i], i)] :
        f \in { <<Res(1, 1, TRUE)>>, <<Res(1, 1, FALSE)>>,
                <<Res(1, 1, TRUE), Res(1, 2, TRUE)>>,
                <<Res(1, 1, FALSE), Res(1, 2, TRUE)>>,
                <<Res(1, 1, TRUE), Res(2, 1, TRUE)>> } }

BatchRanges == { <<1, 1>>, <<1, 2>>, <<2, 2>>, <<2, 1>> }

Missing == [exists |-> FALSE, file |-> <<>>]
Found(S) == { [exists |-> TRUE, file |-> f] : f \in S }

Entry(idx, cid, range, pred, real) ==
    [in_index |-> idx, chain_id |-> cid,
     start_res |-> range[1], end_res |-> range[2],
     pred_exists |-> pred.exists, pred_file |-> pred.file,
     real_exists |-> real.exists, real_file |-> real.file]

IndexedEntries ==
    { Entry(TRUE, "A", range, pred, real) :
        range \in BatchRanges,
        pred \in {Missing} \cup Found(BatchPdbqt),
        real \in {Missing} \cup Found(BatchPdb) }

\* an entry of the top list that the benchmark index does not have
UnindexedEntry == Entry(FALSE, "A", <<1, 1>>, Missing, Missing)

\* the same, whatever files lie under its name
UnindexedEntries ==
    { Entry(FALSE, "A", <<1, 1>>, pred, real) :
        pred \in {Missing} \cup Found({<<>>}),
        real \in {Missing} \cup Found({<<>>}) }

(***************************************************************************)
(* Output lines: pdb_id, the reason of an N/A line ("" for a numeric       *)
(* line) and the numbers printed in it.                                    *)
(***************************************************************************)
Line(pdb_id, reason, args) ==
    [kind |-> "line", pdb_id |-> pdb_id, reason |-> reason, args |-> args]

Header == Line(0, "#", <<>>)
NA(pdb_id, reason, args) == Line(pdb_id, reason, args)
Value(pdb_id, v) == Line(pdb_id, "", <<Thousandths(v)>>)

\* what the loop body does once compute_rmsd has returned
AfterRmsd(pdb_id, v) ==
    IF v.kind = "raise" THEN v
    ELSE IF v = None THEN NA(pdb_id, "cannot compute RMSD", <<>>)
    ELSE Value(pdb_id, v)

(***************************************************************************)
(* The body of the loop of RMSD_Q.main for one entry: the line written,    *)
(* or the exception that ends the script.                                  *)
(***************************************************************************)
main_Q_no_empty_check(pdb_id, e) ==
    IF ~e.in_index THEN NA(pdb_id, "not in benchmark index", <<>>)
    ELSE LET seg_length == e.end_res - e.start_res + 1
         IN IF seg_length <= 0
            THEN NA(pdb_id, "invalid residue range", <<e.start_res, e.end_res>>)
            ELSE IF ~e.pred_exists THEN NA(pdb_id, "predicted file not found", <<>>)
            ELSE IF ~e.real_exists THEN NA(pdb_id, "real PDB not found", <<>>)
            ELSE LET p == parse_pdbqt(e.pred_file, seg_length).items
                     r == parse_real_pdb(e.real_file, e.chain_id,
                                         e.start_res, e.end_res)
                 IN IF Len(p) # Len(r)
                    THEN NA(pdb_id, "atom count mismatch", <<Len(p), Len(r)>>)
                    ELSE AfterRmsd(pdb_id, compute_rmsd(p, r))

main_Q_counts_swapped(pdb_id, e) ==
    IF ~e.in_index THEN NA(pdb_id, "not in benchmark index", <<>>)
    ELSE LET seg_length == e.end_res - e.start_res + 1
         IN IF seg_length <= 0
            THEN NA(pdb_id, "invalid residue range", <<e.start_res, e.end_res>>)
            ELSE IF ~e.pred_exists THEN NA(pdb_id, "predicted file not found", <<>>)
            ELSE IF ~e.real_exists THEN NA(pdb_id, "real PDB not found", <<>>)
            ELSE LET p == parse_pdbqt(e.pred_file, seg_length).items
                     r == parse_real_pdb(e.real_file, e.chain_id,
                                         e.start_res, e.end_res)
                 IN IF Len(p) # Len(r) \/ Len(p) = 0
                    THEN NA(pdb_id, "atom count mismatch", <<Len(r), Len(p)>>)
                    ELSE AfterRmsd(pdb_id, compute_rmsd(p, r))

\* the loop body with the file tests ahead of the range test
main_Q_files_before_range(pdb_id, e) ==
    IF ~e.in_index THEN NA(pdb_id, "not in benchmark index", <<>>)
    ELSE LET seg_length == e.end_res - e.start_res + 1
         IN IF ~e.pred_exists THEN NA(pdb_id, "predicted file not found", <<>>)
            ELSE IF ~e.real_exists THEN NA(pdb_id, "real PDB not found", <<>>)
            ELSE IF seg_length <= 0
            THEN NA(pdb_id, "invalid residue range", <<e.start_res, e.end_res>>)
            ELSE LET p == parse_pdbqt(e.pred_file, seg_length).items
                     r == parse_real_pdb(e.real_file, e.chain_id,
                                         e.start_res, e.end_res)
                 IN IF Len(p) # Len(r) \/ Len(p) = 0
                    THEN NA(pdb_id, "atom count mismatch", <<Len(p), Len(r)>>)
                    ELSE AfterRmsd(pdb_id, compute_rmsd(p, r))

main_Q(pdb_id, e) ==
    IF ~e.in_index THEN NA(pdb_id, "not in benchmark index", <<>>)
    ELSE LET seg_length == e.end_res - e.start_res + 1
         IN IF seg_length <= 0
            THEN NA(pdb_id, "invalid residue range", <<e.start_res, e.end_res>>)
            ELSE IF ~e.pred_exists THEN NA(pdb_id, "predicted file not found", <<>>)
            ELSE IF ~e.real_exists THEN NA(pdb_id, "real PDB not found", <<>>)
            ELSE LET p == parse_pdbqt(e.pred_file, seg_length).items
                     r == parse_real_pdb(e.real_file, e.chain_id,
                                         e.start_res, e.end_res)
                 IN IF Len(p) # Len(r) \/ Len(p) = 0
                    THEN NA(pdb_id, "atom count mismatch", <<Len(p), Len(r)>>)
                    ELSE AfterRmsd(pdb_id, compute_rmsd(p, r))

(***************************************************************************)
(* The body of the loop of RMSD_af.main for one entry of the index.  It    *)
(* has no index test, prints no numbers in the invalid-range line and      *)
(* passes the real coordinates to compute_rmsd first.                      *)
(***************************************************************************)
main_af_no_empty_check(pdb_id, e) ==
    LET seg_length == e.end_res - e.start_res + 1
    IN IF seg_length <= 0 THEN NA(pdb_id, "invalid residue range", <<>>)
       ELSE IF ~e.pred_exists THEN NA(pdb_id, "predicted file not found", <<>>)
       ELSE IF ~e.real_exists THEN NA(pdb_id, "real file not found", <<>>)
       ELSE LET p == parse_pdbqt(e.pred_file, seg_length).items
                r == parse_real_pdb(e.real_file, e.chain_id,
                                    e.start_res, e.end_res)
            IN IF Len(p) # Len(r)
               THEN NA(pdb_id, "atom count mismatch", <<Len(p), Len(r)>>)
               ELSE AfterRmsd(pdb_id, compute_rmsd(r, p))

main_af(pdb_id, e) ==
    LET seg_length == e.end_res - e.start_res + 1
    IN IF seg_length <= 0 THEN NA(pdb_id, "invalid residue range", <<>>)
       ELSE IF ~e.pred_exists THEN NA(pdb_id, "predicted file not found", <<>>)
       ELSE IF ~e.real_exists THEN NA(pdb_id, "real file not found", <<>>)
       ELSE LET p == parse_pdbqt(e.pred_file, seg_length).items
                r == parse_real_pdb(e.real_file, e.chain_id,
                                    e.start_res, e.end_res)
            IN IF Len(p) # Len(r) \/ Len(p) = 0
               THEN NA(pdb_id, "atom count mismatch", <<Len(p), Len(r)>>)
               ELSE AfterRmsd(pdb_id, compute_rmsd(r, p))

(***************************************************************************)
(* The files the loop body parses for one entry: parse_pdbqt and           *)
(* parse_real_pdb are called once the two os.path.isfile tests have passed.*)
(***************************************************************************)
parsed_Q(e) ==
    IF ~e.in_index THEN {}
    ELSE IF e.end_res - e.start_res + 1 <= 0 THEN {}
    ELSE IF ~e.pred_exists THEN {}
    ELSE IF ~e.real_exists THEN {}
    ELSE {"pred", "real"}

parsed_af(e) ==
    IF e.end_res - e.start_res + 1 <= 0 THEN {}
    ELSE IF ~e.pred_exists THEN {}
    ELSE IF ~e.real_exists THEN {}
    ELSE {"pred", "real"}

(***************************************************************************)
(* SpecMain: a run of one of the two batch drivers.  The output file is    *)
(* opened and its header written; each entry is drawn when the loop        *)
(* reaches it; an exception leaves the loop and ends the script.           *)
(***************************************************************************)
InitMain ==
    /\ pc = "open"
    /\ driver \in {"Q", "af"}
    /\ n_records \in 0..MaxBatch
    /\ rec = NoValue /\ parsed = {}
    /\ n_done = 0 /\ outf = <<>>
    /\ AlignIdle /\ ExtractIdle /\ PdbqtIdle /\ VisIdle /\ ToolsIdle

Open ==
    /\ pc = "open"
    /\ outf' = <<Header>>
    /\ pc' = "loop"
    /\ UNCHANGED <<driver, n_records, rec, parsed, n_done, alignVars, extractVars, pdbqtVars,
                   visVars, temp_file, concVars, toolVars>>

\* a loop body that writes nothing for an entry it cannot score
Step_silent_on_NA(e, line) ==
    /\ rec' = e /\ n_done' = n_done + 1
    /\ IF line.kind = "raise"
       THEN pc' = "aborted" /\ outf' = outf
       ELSE /\ pc' = "loop"
            /\ outf' = IF line.reason = "" THEN Append(outf, line) ELSE outf
    /\ UNCHANGED <<driver, n_records, alignVars, extractVars, pdbqtVars, visVars, temp_file, concVars, toolVars>>

Step(e, line) ==
    /\ rec' = e /\ n_done' = n_done + 1
    /\ IF line.kind = "raise"
       THEN pc' = "aborted" /\ outf' = outf
       ELSE pc' = "loop" /\ outf' = Append(outf, line)
    /\ UNCHANGED <<driver, n_records, alignVars, extractVars, pdbqtVars, visVars, temp_file, concVars, toolVars>>

LoopQ ==
    /\ pc = "loop" /\ driver = "Q"
    /\ n_done < n_records
    /\ \E e \in IndexedEntries \cup UnindexedEntries :
          Step(e, main_Q(n_done + 1, e)) /\ parsed' = parsed_Q(e)

LoopAf ==
    /\ pc = "loop" /\ driver = "af"
    /\ n_done < n_records
    /\ \E e \in IndexedEntries :
          Step(e, main_af(n_done + 1, e)) /\ parsed' = parsed_af(e)

Close ==
    /\ pc = "loop"
    /\ n_done = n_records
    /\ pc' = "done"
    /\ UNCHANGED <<driver, n_records, rec, parsed, n_done, outf, alignVars, extractVars, pdbqtVars,
                   visVars, temp_file, concVars, toolVars>>

NextMain == Open \/ LoopQ \/ LoopAf \/ Close

SpecMain == InitMain /\ [][NextMain]_vars

\* the entry processed last got as far as the two extractions
Extracted ==
    /\ rec # NoValue
    /\ rec.in_index /\ rec.end_res - rec.start_res + 1 > 0
    /\ rec.pred_exists /\ rec.real_exists

NumPred ==
    Len(parse_pdbqt(rec.pred_file, rec.end_res - rec.start_res + 1).items)

NumReal ==
    Len(parse_real_pdb(rec.real_file, rec.chain_id, rec.start_res, rec.end_res))

LastLine == outf[Len(outf)]

Mismatch == "atom count mismatch"

\* line i reports an extraction that yielded no coordinate
ZeroLine(i) ==
    /\ outf[i].reason = Mismatch
    /\ outf[i].args[1] = 0 \/ outf[i].args[2] = 0

\* C6: an entry for which an extraction yields zero coordinates is reported
\* as an N/A line carrying the two counts and does not end the batch: every
\* entry after it is processed and gets its own line.
C6_ZeroAtomsDoNotAbort ==
    /\ (Extracted /\ (NumPred = 0 \/ NumReal = 0))
       => /\ pc # "aborted"
          /\ LastLine = NA(Len(outf) - 1, Mismatch, <<NumPred, NumReal>>)
    /\ \A i \in 2..Len(outf) :
          ZeroLine(i)
          => /\ pc # "aborted"
             /\ pc = "done"
                => \A j \in i + 1..n_records + 1 :
                      j <= Len(outf) /\ outf[j].pdb_id = j - 1

C6_Witness ==
    /\ pc = "done" /\ n_records = 2
    /\ ZeroLine(2) /\ outf[2].args = <<0, 0>>
    /\ outf[3].reason = "" /\ outf[3].pdb_id = 2

\* C7: whenever the number of predicted coordinates differs from the number
\* of real coordinates, the line of the entry is the atom count mismatch line
\* with the two actual counts, it is the only line of the entry (no RMSD
\* value is written for it), and no exception is raised.
C7_MismatchLine ==
    (Extracted /\ NumPred # NumReal)
    => /\ pc # "aborted"
       /\ LastLine = NA(Len(outf) - 1, Mismatch, <<NumPred, NumReal>>)
       /\ \A i \in 1..Len(outf) - 1 : outf[i].pdb_id # LastLine.pdb_id

C7_Witness ==
    /\ pc = "done" /\ Extracted
    /\ NumPred = 1 /\ NumReal = 2
    /\ LastLine.reason = Mismatch /\ LastLine.args = <<1, 2>>

(***************************************************************************)
(* vis_rmde.main.  The reference structure is pdb_file, with CHAIN_ID in   *)
(* chain_id and REF_START_RES, REF_END_RES in start_res, end_res; both     *)
(* files exist.  A list of CA atoms holds the atoms themselves: it is kept *)
(* as the list of their serial numbers, and the position of an atom is     *)
(* read from its structure.  The predicted structure lies on a line        *)
(* parallel to the y axis.                                                 *)
(***************************************************************************)
PRED_START == 1

\* a structure in memory: its atoms, at the positions coord / scale
Structure(atoms, scale) == [kind |-> "structure", atoms |-> atoms, scale |-> scale]

\* "%8.3f" of coord / scale: the number of thousandths, rounded
Format3(num, scale) == (2000 * num + scale) \div (2 * scale)

\* ResidueSelect.accept_residue: the residue number alone decides
accept_residue(residue, start, end) ==
    start <= residue.resseq /\ residue.resseq <= end

AcceptAll == [start |-> 0, end |-> MaxResSeq + 1]

ResidueSelect(cid, start, end) == [start |-> start, end |-> end]

\* PDBIO.save: the accepted residues of every model and chain, in order
RECURSIVE SaveLoop(_, _, _, _)
SaveLoop(atoms, scale, select, i) ==
    IF i > Len(atoms) THEN <<>>
    ELSE LET a == atoms[i]
             rest == SaveLoop(atoms, scale, select, i + 1)
         IN IF accept_residue(a, select.start, select.end)
            THEN <<[a EXCEPT !.coord = [k \in Axes |-> Format3(a.coord[k], scale)]]>>
                 \o rest
            ELSE rest

PDBIO_save(structure, select) ==
    SaveLoop(structure.atoms, structure.scale, select, 1)

\* PDBParser.get_structure on a file PDBIO wrote
ParseFragment(content) == Structure(content, 1000)

FileNotFoundError == Raise("FileNotFoundError")

\* extract_fragment_structure with no other user of "temp_fragment.pdb"
extract_fragment_structure(structure, cid, start, end) ==
    ParseFragment(PDBIO_save(structure, ResidueSelect(cid, start, end)))

OnYAxis(file) ==
    [i \in 1..Len(file) |->
        [file[i] EXCEPT !.coord = VAdd(<<5, 5, 5>>, VScale(file[i].serial, Unit(2)))]]

VisRefFiles ==
    BatchPdb \cup { <<WithCoord([Res(1, 1, TRUE) EXCEPT !.chain = "B"], 1)>> }

VisPredFiles == { OnYAxis(f) : f \in BatchPdb }

VisRanges == { <<1, 1>>, <<1, 2>>, <<2, 2>> }

SerialsOf(atoms) == [n \in 1..Len(atoms) |-> atoms[n].serial]

\* the positions (times the scale of the structure) of a list of atoms
AtomCoords(structure, serials) ==
    [n \in 1..Len(serials) |-> structure[serials[n]].coord]

InitVis ==
    /\ pc = "extract"
    /\ pdb_file \in VisRefFiles
    /\ chain_id = "A"
    /\ \E range \in VisRanges : start_res = range[1] /\ end_res = range[2]
    /\ pred_structure \in VisPredFiles
    /\ pred_scale = 1
    /\ ref_ca_atoms = NoValue /\ pred_ca_atoms = NoValue /\ sup = NoValue
    /\ aligned_fragment = NoValue /\ output_file = Absent
    /\ temp_file = Absent /\ ConcIdle
    /\ coords = NoValue /\ ca_atoms = NoValue
    /\ AlignIdle /\ PdbqtIdle /\ MainIdle /\ ToolsIdle

\* lines 105-119: the two extractions and the tests on their results
VisExtract ==
    /\ pc = "extract"
    /\ LET PRED_END == end_res - start_res + 1
           r == extract_ca_atoms(get_structure(pdb_file), chain_id,
                                 start_res, end_res)
           p == extract_ca_atoms(get_structure(pred_structure), chain_id,
                                 PRED_START, PRED_END)
       IN IF r.kind = "raise"
          THEN pc' = "aborted" /\ UNCHANGED <<ref_ca_atoms, pred_ca_atoms>>
          ELSE /\ ref_ca_atoms' = List(SerialsOf(r.items))
               /\ IF r.items = <<>>
                  THEN pc' = "returned" /\ UNCHANGED pred_ca_atoms
                  ELSE IF p.kind = "raise"
                  THEN pc' = "aborted" /\ UNCHANGED pred_ca_atoms
                  ELSE /\ pred_ca_atoms' = List(SerialsOf(p.items))
                       /\ pc' = IF p.items = <<>> \/ Len(r.items) # Len(p.items)
                                THEN "returned" ELSE "superimpose"
    /\ UNCHANGED <<pred_structure, pred_scale, sup, aligned_fragment, output_file,
                   temp_file, concVars, extractVars, alignVars, pdbqtVars,
                   mainVars, toolVars>>

\* lines 122-125: sup.set_atoms(ref_ca_atoms, pred_ca_atoms), then sup.apply
\* on every atom of pred_structure: atom.coord = dot(atom.coord, rot) + tran
\* with tran = centroid(fixed) - dot(centroid(moving), rot)
VisSuperimpose ==
    /\ pc = "superimpose"
    /\ LET fixed == AtomCoords(pdb_file, ref_ca_atoms.items)
           moving == AtomCoords(pred_structure, pred_ca_atoms.items)
           n == Len(fixed)
       IN \E rot \in Rotran(fixed, moving) :
            /\ sup' = [rms |-> Superimposer(fixed, moving), rot |-> rot]
            /\ pred_structure' =
                 [i \in 1..Len(pred_structure) |->
                    [pred_structure[i] EXCEPT !.coord =
                        VAdd(VecMat(VSub(VScale(n, pred_structure[i].coord),
                                         SumVec(moving)), rot),
                             SumVec(fixed))]]
            /\ pred_scale' = n * pred_scale
    /\ pc' = "aligned"
    /\ UNCHANGED <<ref_ca_atoms, pred_ca_atoms, aligned_fragment, output_file,
                   temp_file, concVars, extractVars, alignVars, pdbqtVars,
                   mainVars, toolVars>>

\* lines 128-133: the fragment of the moved structure is read back through
\* the temporary file and written to OUTPUT_FILE
VisSave ==
    /\ pc = "aligned"
    /\ LET PRED_END == end_res - start_res + 1
           fragment == extract_fragment_structure(
                           Structure(pred_structure, pred_scale), chain_id,
                           PRED_START, PRED_END)
       IN /\ aligned_fragment' = fragment
          /\ output_file' = [exists |-> TRUE,
                             content |-> PDBIO_save(fragment, AcceptAll)]
    /\ temp_file' = Absent
    /\ pc' = "saved"
    /\ UNCHANGED <<pred_structure, pred_scale, ref_ca_atoms, pred_ca_atoms, sup,
                   concVars, extractVars, alignVars, pdbqtVars, mainVars, toolVars>>

NextVis == VisExtract \/ VisSuperimpose \/ VisSave

SpecVis == InitVis /\ [][NextVis]_vars

\* the positions of the atoms handed to the Superimposer
PredCaCoords ==
    [n \in 1..Len(pred_ca_atoms.items) |->
        [num |-> pred_structure[pred_ca_atoms.items[n]].coord, den |-> pred_scale]]

RefCaCoords == AtomCoords(pdb_file, ref_ca_atoms.items)

SameFraction(a, b) == VScale(b.den, a.num) = VScale(a.den, b.num)

\* C9: alignment never mutates its inputs: across the Superimposer step of
\* vis_rmde.main the reference and the candidate atoms that were passed in
\* keep their positions.
C9_InputsNotMutated ==
    [][pc = "superimpose"
        => /\ RefCaCoords' = RefCaCoords
           /\ \A n \in 1..Len(pred_ca_atoms.items) :
                 SameFraction(PredCaCoords'[n], PredCaCoords[n])]_vars

\* compute_rmsd leaves its two arguments as they were
C9_ComputeRmsdReadsOnly ==
    [][ref_atoms' = ref_atoms /\ alt_atoms' = alt_atoms]_vars

(***************************************************************************)
(* Two invocations of extract_fragment_structure in one working directory, *)
(* each on its own record.  An invocation saves the fragment to            *)
(* "temp_fragment.pdb", parses that file and removes it.                   *)
(***************************************************************************)
Workers == {1, 2}

ConcInputs ==
    { [structure |-> Structure(f, 1), chain_id |-> "A",
       start_res |-> range[1], end_res |-> range[2]] :
         f \in BatchPdb, range \in VisRanges }

InitConc ==
    /\ pc = "concurrent"
    /\ conc_in \in [Workers -> ConcInputs]
    /\ conc_in[1].structure # conc_in[2].structure
    /\ conc_pc = [w \in Workers |-> "save"]
    /\ conc_out = [w \in Workers |-> NoValue]
    /\ temp_file = Absent
    /\ pred_structure = <<>> /\ pred_scale = 1
    /\ ref_ca_atoms = NoValue /\ pred_ca_atoms = NoValue /\ sup = NoValue
    /\ aligned_fragment = NoValue /\ output_file = Absent
    /\ AlignIdle /\ ExtractIdle /\ PdbqtIdle /\ MainIdle /\ ToolsIdle

\* lines 78-81: io.save(temp_filename, select=ResidueSelect(...))
ConcSave(w) ==
    /\ conc_pc[w] = "save"
    /\ temp_file' =
         [exists |-> TRUE,
          content |-> PDBIO_save(conc_in[w].structure,
                         ResidueSelect(conc_in[w].chain_id, conc_in[w].start_res,
                                       conc_in[w].end_res))]
    /\ conc_pc' = [conc_pc EXCEPT ![w] = "parse"]
    /\ UNCHANGED <<pc, conc_in, conc_out, visVars, alignVars, extractVars,
                   pdbqtVars, mainVars, toolVars>>

\* lines 83-84: parser.get_structure("fragment", temp_filename)
ConcParse(w) ==
    /\ conc_pc[w] = "parse"
    /\ IF temp_file.exists
       THEN /\ conc_out' = [conc_out EXCEPT ![w] = ParseFragment(temp_file.content)]
            /\ conc_pc' = [conc_pc EXCEPT ![w] = "remove"]
       ELSE /\ conc_out' = [conc_out EXCEPT ![w] = FileNotFoundError]
            /\ conc_pc' = [conc_pc EXCEPT ![w] = "raised"]
    /\ UNCHANGED <<pc, conc_in, temp_file, visVars, alignVars, extractVars,
                   pdbqtVars, mainVars, toolVars>>

\* lines 85-86: os.remove(temp_filename); return fragment_struct
ConcRemove(w) ==
    /\ conc_pc[w] = "remove"
    /\ IF temp_file.exists
       THEN /\ temp_file' = Absent
            /\ conc_pc' = [conc_pc EXCEPT ![w] = "returned"]
            /\ UNCHANGED conc_out
       ELSE /\ conc_out' = [conc_out EXCEPT ![w] = FileNotFoundError]
            /\ conc_pc' = [conc_pc EXCEPT ![w] = "raised"]
            /\ UNCHANGED temp_file
    /\ UNCHANGED <<pc, conc_in, visVars, alignVars, extractVars, pdbqtVars,
                   mainVars, toolVars>>

NextConc == \E w \in Workers : ConcSave(w) \/ ConcParse(w) \/ ConcRemove(w)

SpecConc == InitConc /\ [][NextConc]_vars

\* what invocation w returns when it runs alone
Alone(w) ==
    extract_fragment_structure(conc_in[w].structure, conc_in[w].chain_id,
                               conc_in[w].start_res, conc_in[w].end_res)

Finished(w) == conc_pc[w] \in {"returned", "raised"}

\* C10: in every interleaving of two concurrent invocations on different
\* records, each invocation returns the result it returns when run alone.
C10_ConcurrentInvocationsIndependent ==
    \A w \in Workers :
        Finished(w) => conc_pc[w] = "returned" /\ conc_out[w] = Alone(w)

\* an invocation that no other invocation overlaps returns its own fragment
C10_SequentialInvocations ==
    \A w \in Workers :
        (Finished(w) /\ \A v \in Workers \ {w} : conc_pc[v] = "save")
            => conc_pc[w] = "returned" /\ conc_out[w] = Alone(w)

(***************************************************************************)
(* SpecRigid: compute_rmsd(P, R0 * P + t0) for a list P on the x, y or z   *)
(* axis, a proper rotation R0 of the lattice and a translation t0.         *)
(***************************************************************************)
Translations == Bases

\* R0 * P + t0, point by point
RigidMotion(P, R0, t0) == [n \in 1..Len(P) |-> VAdd(VecMat(P[n], R0), t0)]

RigidLists ==
    UNION { { [n \in 1..len |-> VScale(k[n], Unit(ax))] :
                ax \in Axes, k \in [1..len -> 0..MaxRigidCoord] } :
            len \in 1..MaxRigidAtoms }

InitRigid ==
    /\ pc = "call"
    /\ ref_atoms \in RigidLists
    /\ \E R0 \in Rotations, t0 \in Translations :
          alt_atoms = RigidMotion(ref_atoms, R0, t0)
    /\ rmsd_val = NoValue
    /\ ExtractIdle /\ PdbqtIdle /\ MainIdle /\ VisIdle /\ ToolsIdle

SpecRigid == InitRigid /\ [][NextAlign]_vars

IsRigidImage(P, Q) ==
    \E R0 \in Rotations, t0 \in Translations : Q = RigidMotion(P, R0, t0)

ExampleReference == <<<<0, 0, 0>>, <<1, 0, 0>>, <<2, 0, 0>>>>
ExampleCandidate == <<<<5, 5, 5>>, <<5, 6, 5>>, <<5, 7, 5>>>>

\* C11: invariance under rigid motion: for every non-empty list P, proper
\* rotation R0 and translation t0, compute_rmsd(P, R0 * P + t0) is a value
\* whose square is 0; this covers the reference (0,0,0),(1,0,0),(2,0,0)
\* against the candidate (5,5,5),(5,6,5),(5,7,5).
C11_RigidMotionInvariance ==
    (pc = "returned" /\ ref_atoms # <<>> /\ IsRigidImage(ref_atoms, alt_atoms))
    => IsRms(rmsd_val) /\ rmsd_val.sq_num = 0

C11_Witness ==
    /\ pc = "returned"
    /\ ref_atoms = ExampleReference /\ alt_atoms = ExampleCandidate
    /\ IsRms(rmsd_val) /\ rmsd_val.sq_num = 0

\* C12: symmetry: on equal-length non-empty lists compute_rmsd(A, B) and
\* compute_rmsd(B, A) return the same value, so RMSD_Q.main (predicted
\* first) and RMSD_af.main (real first) score a pair identically.
C12_Symmetry ==
    (pc = "returned" /\ Len(ref_atoms) = Len(alt_atoms) /\ ref_atoms # <<>>)
    => IsRms(rmsd_val) /\ compute_rmsd(alt_atoms, ref_atoms) = rmsd_val

C12_Witness ==
    /\ pc = "returned"
    /\ Len(ref_atoms) = 2 /\ Len(alt_atoms) = 2
    /\ ref_atoms[1] # ref_atoms[2] /\ AllSame(alt_atoms)
    /\ ref_atoms[1] # alt_atoms[1]
    /\ IsRms(rmsd_val) /\ rmsd_val.sq_num > 0
    /\ compute_rmsd(alt_atoms, ref_atoms) = rmsd_val

\* the two drivers write the same number for an entry both of them score
C12_DriversScoreAlike ==
    (Extracted /\ LastLine.reason = "")
    => /\ main_Q(1, rec) = main_af(1, rec)
       /\ LastLine.args = main_Q(1, rec).args

Transpose(m) == [j \in Axes |-> [i \in Axes |-> m[i][j]]]

MatMul(a, b) == [j \in Axes |-> VecMat(a[j], b)]

\* the lists handed to set_atoms in vis_rmde.main
VisFixed == AtomCoords(pdb_file, ref_ca_atoms.items)

\* the moving atoms are read where they were before sup.apply moved them
VisMovingBefore ==
    [n \in 1..Len(pred_ca_atoms.items) |->
        VAdd(<<5, 5, 5>>, VScale(pred_ca_atoms.items[n], Unit(2)))]

\* C13: the rotation of every successful superposition is a proper
\* rotation: orthogonal with determinant +1, never -1, also for collinear
\* (planar, mirror-symmetric) and single-point inputs whose best orthogonal
\* matrix is a reflection.
C13_ProperRotation ==
    sup # NoValue
    => /\ Det(sup.rot) = 1
       /\ MatMul(sup.rot, Transpose(sup.rot)) = Identity

C13_Witness ==
    /\ pc = "aligned" /\ Len(ref_ca_atoms.items) = 2
    /\ \E naive \in NaiveRotations(VisFixed, VisMovingBefore) :
          /\ Det(naive) = -1
          /\ sup.rot # naive
          /\ sup.rot \in ReflectionCorrection(naive,
                            Cov(Centered(VisMovingBefore), Centered(VisFixed)))
    /\ Det(sup.rot) = 1

\* the corrected rotations are exactly the best proper rotations
C13_CorrectionIsOptimal ==
    pc = "superimpose"
    => Rotran(VisFixed, VisMovingBefore) = BestRotations(VisFixed, VisMovingBefore)

DegenerateCall ==
    /\ pc = "returned"
    /\ Len(ref_atoms) = Len(alt_atoms) /\ ref_atoms # <<>>
    /\ AllSame(ref_atoms) \/ AllSame(alt_atoms)

\* C15 (as stated): whenever all points of a list passed to compute_rmsd are
\* identical, its counterpart being any list of the same non-zero length,
\* compute_rmsd returns the value 0 and raises no error.
C15_DegenerateListZero ==
    DegenerateCall => IsRms(rmsd_val) /\ rmsd_val.sq_num = 0

\* C15 (amended): whenever all points of a list passed to compute_rmsd are
\* identical, compute_rmsd raises no error and returns the spread of the
\* counterpart about its centroid, which is 0 exactly when the counterpart
\* is a single repeated point too.
C15_DegenerateListSpread ==
    DegenerateCall
    => /\ IsRms(rmsd_val)
       /\ rmsd_val.sq_num = SqNorm(Centered(ref_atoms)) + SqNorm(Centered(alt_atoms))
       /\ rmsd_val.sq_num = 0 <=> (AllSame(ref_atoms) /\ AllSame(alt_atoms))

C15_Witness ==
    /\ DegenerateCall
    /\ ref_atoms = <<Zero3, <<1, 0, 0>>>> /\ alt_atoms = <<Zero3, Zero3>>
    /\ IsRms(rmsd_val) /\ rmsd_val.sq_num = 2 /\ rmsd_val.sq_den = 8

(***************************************************************************)
(* SpecFragment: one invocation of extract_fragment_structure, alone in    *)
(* its working directory, on a structure with chains A and B.              *)
(***************************************************************************)
FragmentInputs ==
    { [structure |-> Structure(f, 1), chain_id |-> cid,
       start_res |-> range[1], end_res |-> range[2]] :
         f \in PdbFiles, cid \in ChainIds, range \in VisRanges }

InitFragment ==
    /\ pc = "fragment"
    /\ conc_in \in [{1} -> FragmentInputs]
    /\ conc_pc = [w \in {1} |-> "save"]
    /\ conc_out = [w \in {1} |-> NoValue]
    /\ temp_file = Absent
    /\ pred_structure = <<>> /\ pred_scale = 1
    /\ ref_ca_atoms = NoValue /\ pred_ca_atoms = NoValue /\ sup = NoValue
    /\ aligned_fragment = NoValue /\ output_file = Absent
    /\ AlignIdle /\ ExtractIdle /\ PdbqtIdle /\ MainIdle /\ ToolsIdle

NextFragment == ConcSave(1) \/ ConcParse(1) \/ ConcRemove(1)

SpecFragment == InitFragment /\ [][NextFragment]_vars

\* C16: the structure extract_fragment_structure returns contains only
\* residues of the chain chain_id whose number lies in [start, end]; a
\* residue of another chain is excluded even when its number is in range.
C16_OnlyNamedChain ==
    conc_pc[1] = "returned"
    => \A n \in 1..Len(conc_out[1].atoms) :
          /\ conc_out[1].atoms[n].chain = conc_in[1].chain_id
          /\ conc_in[1].start_res <= conc_out[1].atoms[n].resseq
          /\ conc_out[1].atoms[n].resseq <= conc_in[1].end_res

\* the residue numbers of the returned structure do lie in [start, end]
C16_OnlyWindow ==
    conc_pc[1] = "returned"
    => \A n \in 1..Len(conc_out[1].atoms) :
          /\ conc_in[1].start_res <= conc_out[1].atoms[n].resseq
          /\ conc_out[1].atoms[n].resseq <= conc_in[1].end_res

(***************************************************************************)
(* docking_result: get_average_q.py writes a summary.txt per protein       *)
(* folder, summary.py reads them back.  A float is the fraction num / den; *)
(* a line of text is a sequence of tokens: literal text, a name or integer *)
(* ("name"), or a number printed with three decimals ("num", counted in    *)
(* thousandths).                                                           *)
(***************************************************************************)
Frac(num, den) == [num |-> num, den |-> den]

T(text) == [t |-> "text", s |-> text, v |-> 0]
I(n) == [t |-> "name", s |-> "", v |-> n]
N(thousandths) == [t |-> "num", s |-> "", v |-> thousandths]

\* f"{x:.3f}"
Fmt3(x) == N(Format3(x.num, x.den))

\* float(text) of a number printed with three decimals
Float(token) == Frac(token.v, 1000)

NoneTriple == [kind |-> "None"]
Triple(aff, lb, ub) == [kind |-> "triple", aff |-> aff, lb |-> lb, ub |-> ub]

Proteins == 1..MaxProteins

\* the averages parse_docking_log returns for one run
RunAverages ==
    { Triple(Frac(-21902, 3000), Frac(3002, 3000), Frac(6004, 3000)),
      Triple(Frac(-18000, 3000), Frac(0, 3000), Frac(2998, 3000)) }

\* per_run_results of a protein folder: (run name, averages) of each run
\* that has data, in run order
RunLists ==
    UNION { { [k \in 1..n |-> [name |-> k, avg |-> r[k]]] :
                r \in [1..n -> RunAverages] } : n \in 0..MaxRuns }

\* get_average_q.compute_summary, from per_run_results on
compute_summary(per_run) ==
    IF per_run = <<>> THEN None
    ELSE LET n == Len(per_run)
             total(field) == SumInt([k \in 1..n |-> per_run[k].avg[field].num])
             den == per_run[1].avg.aff.den
         IN [kind |-> "summary", per_run |-> per_run,
             final |-> Triple(Frac(total("aff"), den * n),
                              Frac(total("lb"), den * n),
                              Frac(total("ub"), den * n))]

AveragesText(x) ==
    <<T("affinity="), Fmt3(x.aff), T(", "), T("rmsd_lb="), Fmt3(x.lb), T(", "),
      T("rmsd_ub="), Fmt3(x.ub)>>

\* get_average_q.write_summary: the lines of summary.txt
write_summary(name, summary_data) ==
    <<  <<T("# Docking Summary for "), I(name)>>, <<>>  >>
    \o [k \in 1..Len(summary_data.per_run) |->
          <<T("run"), I(summary_data.per_run[k].name), T(" => ")>>
          \o AveragesText(summary_data.per_run[k].avg)]
    \o <<  <<>>,
           <<T("# Final average over "), I(Len(summary_data.per_run)), T(" runs")>>,
           AveragesText(summary_data.final)  >>

\* a summary.txt in the layout summary.py expects
ExpectedLayout(x) ==
    <<  <<T("[FINAL AVERAGE ACROSS"), T(" ALL RUNS]")>>,
        <<T("affinity="), Fmt3(x.aff), T(", "), T("rmsd_l.b.="), Fmt3(x.lb),
          T(", "), T("rmsd_u.b.="), Fmt3(x.ub)>>  >>

\* FINAL_PATTERN.search(line): the three numbers, or None
FINAL_PATTERN(line) ==
    LET At(label) == { i \in 1..Len(line) - 1 :
                         line[i] = T(label) /\ line[i + 1].t = "num" }
        hits == { m \in At("affinity=") \X At("rmsd_l.b.=") \X At("rmsd_u.b.=") :
                    m[1] + 1 < m[2] /\ m[2] + 1 < m[3] }
    IN IF hits = {} THEN None
       ELSE LET m == CHOOSE h \in hits : TRUE
            IN Triple(Float(line[m[1] + 1]), Float(line[m[2] + 1]),
                      Float(line[m[3] + 1]))

RECURSIVE ParseFinalLoop(_, _, _)
ParseFinalLoop(lines, i, found_final) ==
    IF i > Len(lines) THEN NoneTriple
    ELSE LET line == lines[i]
             match == IF found_final THEN FINAL_PATTERN(line) ELSE None
         IN IF match # None THEN match
            ELSE ParseFinalLoop(lines, i + 1,
                     found_final
                     \/ (line # <<>> /\ line[1] = T("[FINAL AVERAGE ACROSS")))

\* summary.parse_final_average
parse_final_average(file) ==
    IF ~file.exists THEN NoneTriple ELSE ParseFinalLoop(file.content, 1, FALSE)

\* summary.gather_summaries: the folders whose summary.txt yields a triple
gather_summaries(files) ==
    LET kept == { p \in DOMAIN files : parse_final_average(files[p]) # NoneTriple }
    IN [p \in kept |-> parse_final_average(files[p])]

\* summary.write_combined_report
RECURSIVE ReportLoop(_, _)
ReportLoop(data, ids) ==
    IF ids = {} THEN <<>>
    ELSE LET pdb_id == CHOOSE p \in ids : \A q \in ids : p <= q
         IN <<  <<T("["), I(pdb_id), T("]")>>,
                AveragesText(data[pdb_id]), <<>>  >>
            \o ReportLoop(data, ids \ {pdb_id})

write_combined_report(data) ==
    <<  <<T("# All proteins summary")>>, <<>>  >> \o ReportLoop(data, DOMAIN data)

(***************************************************************************)
(* SpecSummary: get_average_q.main over the protein folders, then          *)
(* summary.main.  A folder may already hold a summary.txt in the layout    *)
(* summary.py expects.                                                     *)
(***************************************************************************)
InitSummary ==
    /\ pc = "get_average_q"
    /\ run_data \in [Proteins -> RunLists]
    /\ summary_files \in
         [Proteins -> {Absent} \cup
             { [exists |-> TRUE, content |-> ExpectedLayout(x)] :
                  x \in { Triple(Frac(-7000, 1000), Frac(0, 1000), Frac(1500, 1000)) } }]
    /\ results = <<>> /\ report = <<>>
    /\ CmpIdle /\ InterIdle
    /\ AlignIdle /\ ExtractIdle /\ PdbqtIdle /\ MainIdle /\ VisIdle /\ PredIdle

\* get_average_q.main: every folder with run data gets its summary.txt
GetAverageMain ==
    /\ pc = "get_average_q"
    /\ summary_files' =
         [p \in Proteins |->
            LET summary == compute_summary(run_data[p])
            IN IF summary = None THEN summary_files[p]
               ELSE [exists |-> TRUE, content |-> write_summary(p, summary)]]
    /\ pc' = "summary"
    /\ UNCHANGED <<run_data, results, report, alignVars, extractVars, pdbqtVars,
                   mainVars, visVars, temp_file, concVars, predVars, cmpVars, interVars>>

\* summary.main: gather_summaries, then write_combined_report
SummaryMain ==
    /\ pc = "summary"
    /\ results' = gather_summaries(summary_files)
    /\ report' = write_combined_report(gather_summaries(summary_files))
    /\ pc' = "reported"
    /\ UNCHANGED <<run_data, summary_files, alignVars, extractVars, pdbqtVars,
                   mainVars, visVars, temp_file, concVars, predVars, cmpVars, interVars>>

NextSummary == GetAverageMain \/ SummaryMain

SpecSummary == InitSummary /\ [][NextSummary]_vars

\* the final averages as write_summary printed them in the folder's file
WrittenFinal(p) ==
    LET final == compute_summary(run_data[p]).final
    IN Triple(Float(Fmt3(final.aff)), Float(Fmt3(final.lb)), Float(Fmt3(final.ub)))

\* C17: round trip: for every summary.txt written by write_summary,
\* parse_final_average returns the final averages written in it, so
\* gather_summaries includes every protein that has a summary.
C17_SummaryRoundTrip ==
    pc = "reported"
    => \A p \in Proteins :
          run_data[p] # <<>>
          => /\ parse_final_average(summary_files[p]) = WrittenFinal(p)
             /\ p \in DOMAIN results
             /\ results[p] = WrittenFinal(p)

\* a summary.txt in the expected layout is read back
C17_ExpectedLayoutRead ==
    pc = "reported"
    => \A p \in Proteins :
          (run_data[p] = <<>> /\ summary_files[p].exists)
          => p \in DOMAIN results /\ results[p].kind = "triple"

\* no file written by write_summary yields a triple
C17_WrittenNeverRead ==
    pc = "reported"
    => \A p \in Proteins : run_data[p] # <<>> => p \notin DOMAIN results

(***************************************************************************)
(* The comparison scripts docking_%.py (affinity, quantum against af3) and *)
(* rmsd_%.py (RMSD, quantum against af2).  An input line is the list of    *)
(* its whitespace-separated columns; a value is a float counted in         *)
(* ten-thousandths.                                                        *)
(***************************************************************************)
V(n) == [t |-> "float", s |-> "", v |-> n]

CmpValues == {10001, 10002, 25000}

\* f"{x:.3f}" of a value
CmpFmt3(x) == Format3(x, 10000)

\* f"{k / total * 100:.1f}", in tenths of a percent
Pct(k, total) == (2000 * k + total) \div (2 * total)

CmpFiles ==
    UNION { { <<>>,
              << <<I(1), V(x)>> >>,
              << <<I(2), V(x)>>, <<I(1), V(y)>> >>,
              << <<T("#")>>, <<I(1), V(x)>>, <<I(2), T("N/A")>> >>,
              << <<I(1), V(x)>>, <<>>, <<I(1), V(y)>> >>,
              << <<I(3), V(x), T("kcal")>>, <<I(1)>>, <<I(2), V(y)>> >> } :
            x \in CmpValues, y \in CmpValues }

\* parse_docking_file / load_rmsd_data: the dict of the last value per id
RECURSIVE LoadLoop(_, _, _)
LoadLoop(lines, i, data) ==
    IF i > Len(lines) THEN data
    ELSE LET cols == lines[i]
         IN IF cols = <<>> \/ (cols[1].t = "text" /\ cols[1].s = "#")
            THEN LoadLoop(lines, i + 1, data)
            ELSE IF Len(cols) < 2 THEN LoadLoop(lines, i + 1, data)
            ELSE IF cols[2].t # "float" THEN LoadLoop(lines, i + 1, data)
            ELSE LoadLoop(lines, i + 1,
                     [p \in DOMAIN data \cup {cols[1].v} |->
                        IF p = cols[1].v THEN cols[2].v ELSE data[p]])

load_rmsd_data(lines) == LoadLoop(lines, 1, <<>>)

parse_docking_file(lines) == LoadLoop(lines, 1, <<>>)

\* sorted(ids)
RECURSIVE Sorted(_)
Sorted(ids) ==
    IF ids = {} THEN <<>>
    ELSE LET least == CHOOSE p \in ids : \A q \in ids : p <= q
         IN <<least>> \o Sorted(ids \ {least})

Row(pdb_id, q_val, a_val, other, better) ==
    [kind |-> "row", pdb_id |-> pdb_id, quantum |-> CmpFmt3(q_val),
     other |-> other, other_val |-> CmpFmt3(a_val), better |-> better]

\* a comparison that gives ties to quantum
compare_affinity_ties_to_quantum(quantum_data, af2_data) ==
    LET ids == Sorted(DOMAIN quantum_data \cap DOMAIN af2_data)
    IN [k \in 1..Len(ids) |->
          LET q_val == quantum_data[ids[k]]
              a_val == af2_data[ids[k]]
          IN Row(ids[k], q_val, a_val, "af3",
                 IF q_val <= a_val THEN "quantum" ELSE "af3")]

\* docking_%.compare_affinity
compare_affinity(quantum_data, af2_data) ==
    LET ids == Sorted(DOMAIN quantum_data \cap DOMAIN af2_data)
    IN [k \in 1..Len(ids) |->
          LET q_val == quantum_data[ids[k]]
              a_val == af2_data[ids[k]]
          IN Row(ids[k], q_val, a_val, "af3",
                 IF q_val < a_val THEN "quantum"
                 ELSE IF q_val > a_val THEN "af3" ELSE "tie")]

Count(rows, better) ==
    Cardinality({ k \in 1..Len(rows) : rows[k].better = better })

Stat(kind, n, total) == [kind |-> kind, n |-> n, pct |-> Pct(n, total)]

\* the tally lines both docking_% writers end with
StatsLines(rows, other_label) ==
    IF Len(rows) = 0 THEN << [kind |-> "# No data."] >>
    ELSE LET total == Len(rows)
             quantum_better == Count(rows, "quantum")
             af2_better == Count(rows, "af3")
             tie_count == total - quantum_better - af2_better
         IN << [kind |-> "# total", n |-> total],
               Stat("# quantum better", quantum_better, total),
               Stat(other_label, af2_better, total) >>
            \o (IF tie_count > 0 THEN << Stat("# tie", tie_count, total) >>
                ELSE <<>>)

\* docking_%.write_compare_all
write_compare_all(rows) ==
    << [kind |-> "# Compare affinity"] >> \o rows \o StatsLines(rows, "# af2 better")

G(letter) == [t |-> "group", s |-> letter, v |-> 0]

IndexFiles ==
    { <<>>,
      << <<G("S")>>, <<I(1)>>, <<>>, <<G("M")>>, <<I(2), T("x")>> >>,
      << <<I(1)>>, <<G("L")>>, <<T("length_")>>, <<I(1)>>, <<I(3)>>,
         <<G("S")>>, <<I(1)>> >> }

\* docking_%.parse_group_index
RECURSIVE GroupLoop(_, _, _, _)
GroupLoop(lines, i, current_group, groups_map) ==
    IF i > Len(lines) THEN groups_map
    ELSE LET cols == lines[i]
         IN IF cols = <<>> THEN GroupLoop(lines, i + 1, current_group, groups_map)
            ELSE IF cols[1].t = "group"
            THEN GroupLoop(lines, i + 1, cols[1].s, groups_map)
            ELSE IF cols[1].t = "text" /\ cols[1].s = "length_"
            THEN GroupLoop(lines, i + 1, current_group, groups_map)
            ELSE IF current_group \in DOMAIN groups_map
            THEN GroupLoop(lines, i + 1, current_group,
                     [groups_map EXCEPT ![current_group] = @ \cup {cols[1].v}])
            ELSE GroupLoop(lines, i + 1, current_group, groups_map)

parse_group_index(lines) ==
    GroupLoop(lines, 1, "None", [g \in {"S", "M", "L"} |-> {}])

RECURSIVE Filter(_, _, _)
Filter(rows, i, keep) ==
    IF i > Len(rows) THEN <<>>
    ELSE (IF rows[i].pdb_id \in keep THEN <<rows[i]>> ELSE <<>>)
         \o Filter(rows, i + 1, keep)

\* docking_%.distribute_and_stats, after the header main writes in each file
distribute_and_stats(rows, group_map) ==
    LET S_list == Filter(rows, 1, group_map["S"])
        M_list == Filter(rows, 1, group_map["M"] \ group_map["S"])
        L_list == Filter(rows, 1, group_map["L"] \ (group_map["S"] \cup group_map["M"]))
        File(g, list) ==
            << [kind |-> "# group", group |-> g] >> \o list
            \o StatsLines(list, "# af3 better")
    IN [S |-> File("S", S_list), M |-> File("M", M_list), L |-> File("L", L_list)]

\* rmsd_%.main: the loop over the common ids, counting as it goes
RECURSIVE RmsdLoop(_, _, _, _, _)
RmsdLoop(quantum_data, af3_data, ids, k, acc) ==
    IF k > Len(ids) THEN acc
    ELSE LET q_rmsd == quantum_data[ids[k]]
             a_rmsd == af3_data[ids[k]]
             better_method == IF q_rmsd < a_rmsd THEN "quantum"
                              ELSE IF q_rmsd > a_rmsd THEN "af2" ELSE "tie"
         IN RmsdLoop(quantum_data, af3_data, ids, k + 1,
                [rows |-> Append(acc.rows,
                             Row(ids[k], q_rmsd, a_rmsd, "af2", better_method)),
                 quantum_better |-> acc.quantum_better
                                    + (IF better_method = "quantum" THEN 1 ELSE 0),
                 af3_better |-> acc.af3_better
                                + (IF better_method = "af2" THEN 1 ELSE 0),
                 tie_count |-> acc.tie_count
                               + (IF better_method = "tie" THEN 1 ELSE 0)])

rmsd_main(quantum_data, af3_data) ==
    LET common_ids == DOMAIN quantum_data \cap DOMAIN af3_data
        r == RmsdLoop(quantum_data, af3_data, Sorted(common_ids), 1,
                 [rows |-> <<>>, quantum_better |-> 0, af3_better |-> 0,
                  tie_count |-> 0])
        total_compared == Cardinality(common_ids)
    IN << [kind |-> "# Compare RMSD"], [kind |-> "# Format"] >> \o r.rows
       \o (IF total_compared = 0 THEN << [kind |-> "# No common pdb_id"] >>
           ELSE << [kind |-> "# total", n |-> total_compared],
                   Stat("# quantum better", r.quantum_better, total_compared),
                   Stat("# af2 better", r.af3_better, total_compared) >>
                \o (IF r.tie_count > 0
                    THEN << Stat("# tie", r.tie_count, total_compared) >>
                    ELSE <<>>))

(***************************************************************************)
(* SpecCompare: one run of a comparison script on its input files.         *)
(***************************************************************************)
InitCompare ==
    /\ pc = "compare"
    /\ cmp_script \in {"docking_%", "rmsd_%"}
    /\ quantum_file \in CmpFiles
    /\ other_file \in CmpFiles
    /\ index_file \in (IF cmp_script = "docking_%" THEN IndexFiles ELSE {<<>>})
    /\ cmp_all = <<>> /\ cmp_groups = <<>>
    /\ SumIdle /\ InterIdle
    /\ AlignIdle /\ ExtractIdle /\ PdbqtIdle /\ MainIdle /\ VisIdle /\ PredIdle

DockingMain ==
    /\ pc = "compare" /\ cmp_script = "docking_%"
    /\ LET group_map == parse_group_index(index_file)
           affinity_results == compare_affinity(parse_docking_file(quantum_file),
                                                parse_docking_file(other_file))
       IN /\ cmp_all' = write_compare_all(affinity_results)
          /\ cmp_groups' = distribute_and_stats(affinity_results, group_map)
    /\ pc' = "compared"
    /\ UNCHANGED <<cmp_script, quantum_file, other_file, index_file, sumVars,
                   alignVars, extractVars, pdbqtVars, mainVars, visVars,
                   temp_file, concVars, predVars, interVars>>

RmsdMain ==
    /\ pc = "compare" /\ cmp_script = "rmsd_%"
    /\ cmp_all' = rmsd_main(load_rmsd_data(quantum_file), load_rmsd_data(other_file))
    /\ pc' = "compared"
    /\ UNCHANGED <<cmp_script, quantum_file, other_file, index_file, cmp_groups,
                   sumVars, alignVars, extractVars, pdbqtVars, mainVars, visVars,
                   temp_file, concVars, predVars, interVars>>

NextCompare == DockingMain \/ RmsdMain

SpecCompare == InitCompare /\ [][NextCompare]_vars

\* the two input maps of the run
QuantumData == LoadLoop(quantum_file, 1, <<>>)
OtherData == LoadLoop(other_file, 1, <<>>)
CommonIds == DOMAIN QuantumData \cap DOMAIN OtherData

RECURSIVE LinesOfKind(_, _, _)
LinesOfKind(lines, i, kinds) ==
    IF i > Len(lines) THEN <<>>
    ELSE (IF lines[i].kind \in kinds THEN <<lines[i]>> ELSE <<>>)
         \o LinesOfKind(lines, i + 1, kinds)

CmpRows == LinesOfKind(cmp_all, 1, {"row"})

\* the number a tally line of the overall file reports (0 when not written)
Tally(kind) ==
    LET found == LinesOfKind(cmp_all, 1, {kind})
    IN IF found = <<>> THEN 0 ELSE found[1].n

\* C18: the comparison scripts compare exactly the pdb_ids present in both
\* input maps, each once and in ascending order; a record is labelled
\* "quantum" iff the quantum value is strictly lower, with the other method
\* iff it is strictly higher and "tie" iff the values are equal; the three
\* tallies count exactly these classes and sum to the number of compared ids.
C18_ComparisonAndTallies ==
    pc = "compared"
    => /\ Len(CmpRows) = Cardinality(CommonIds)
       /\ \A k \in 1..Len(CmpRows) : CmpRows[k].pdb_id \in CommonIds
       /\ \A k \in 1..Len(CmpRows) - 1 : CmpRows[k].pdb_id < CmpRows[k + 1].pdb_id
       /\ \A k \in 1..Len(CmpRows) :
             LET q == QuantumData[CmpRows[k].pdb_id]
                 a == OtherData[CmpRows[k].pdb_id]
             IN /\ CmpRows[k].better = "quantum" <=> q < a
                /\ CmpRows[k].better = CmpRows[k].other <=> q > a
                /\ CmpRows[k].better = "tie" <=> q = a
       /\ Tally("# quantum better")
             = Cardinality({ p \in CommonIds : QuantumData[p] < OtherData[p] })
       /\ Tally("# af2 better")
             = Cardinality({ p \in CommonIds : QuantumData[p] > OtherData[p] })
       /\ Tally("# tie")
             = Cardinality({ p \in CommonIds : QuantumData[p] = OtherData[p] })
       /\ Tally("# quantum better") + Tally("# af2 better") + Tally("# tie")
             = Cardinality(CommonIds)
       /\ CommonIds # {} => Tally("# total") = Cardinality(CommonIds)

C18_Witness ==
    /\ pc = "compared" /\ cmp_script = "docking_%"
    /\ Len(quantum_file) = 3 /\ Len(LinesOfKind(cmp_all, 1, {"row"})) = 2
    /\ CmpRows[1].pdb_id = 2 /\ CmpRows[1].better = "quantum"
    /\ CmpRows[1].quantum = CmpRows[1].other_val
    /\ CmpRows[2].pdb_id = 3 /\ CmpRows[2].better = "tie"
    /\ Tally("# quantum better") = 1 /\ Tally("# af2 better") = 0
    /\ Tally("# tie") = 1 /\ Tally("# total") = 2

C18_WitnessRmsd ==
    /\ pc = "compared" /\ cmp_script = "rmsd_%"
    /\ Len(CmpRows) = 2
    /\ CmpRows[1].better = "af2" /\ CmpRows[2].better = "quantum"
    /\ Tally("# tie") = 0 /\ Tally("# af2 better") = 1

(***************************************************************************)
(* interaction_aa.py: a residue sequence is a sequence of one-letter       *)
(* codes, an interaction string the pair of its two letters.               *)
(***************************************************************************)
Letters == {"A", "C", "X"}    \* X is not a standard amino acid

Seqs == UNION { [1..n -> Letters] : n \in 0..MaxSeqLen }

\* one data line of the benchmark file: blank, too few columns, or a line
\* whose Residue_sequence column holds seq (possibly empty)
BenchLines ==
    { [cols |-> 0, seq |-> <<>>], [cols |-> 1, seq |-> <<>>] }
    \cup { [cols |-> 2, seq |-> q] : q \in Seqs }

\* the inner loops of get_interactions_from_sequence, pair by pair
RECURSIVE PairLoopNoReverse(_, _, _, _)
PairLoopNoReverse(seq, i, j, interactions) ==
    IF i > Len(seq) - 1 THEN interactions
    ELSE IF j > Len(seq) THEN PairLoopNoReverse(seq, i + 1, i + 2, interactions)
    ELSE LET candidate == <<seq[i], seq[j]>>
         IN IF candidate \in interactions
            THEN PairLoopNoReverse(seq, i, j + 1, interactions)
            ELSE PairLoopNoReverse(seq, i, j + 1, interactions \cup {candidate})

get_interactions_no_reverse_check(seq) == PairLoopNoReverse(seq, 1, 2, {})

RECURSIVE PairLoop(_, _, _, _)
PairLoop(seq, i, j, interactions) ==
    IF i > Len(seq) - 1 THEN interactions
    ELSE IF j > Len(seq) THEN PairLoop(seq, i + 1, i + 2, interactions)
    ELSE LET candidate == <<seq[i], seq[j]>>
             reverse_candidate == <<seq[j], seq[i]>>
         IN IF candidate \in interactions \/ reverse_candidate \in interactions
            THEN PairLoop(seq, i, j + 1, interactions)
            ELSE PairLoop(seq, i, j + 1, interactions \cup {candidate})

get_interactions_from_sequence(seq) == PairLoop(seq, 1, 2, {})

\* Counter.update(inter_set): one more for every element of the set
CounterUpdate(counter, elements) ==
    [key \in DOMAIN counter \cup elements |->
        (IF key \in DOMAIN counter THEN counter[key] ELSE 0)
        + (IF key \in elements THEN 1 ELSE 0)]

\* write_interactions: one line "interaction<TAB>count" per key
RECURSIVE write_interactions(_, _)
write_interactions(counter, keys) ==
    IF keys = {} THEN <<>>
    ELSE LET key == CHOOSE k \in keys : TRUE
         IN << [interaction |-> key, count |-> counter[key]] >>
            \o write_interactions(counter, keys \ {key})

(***************************************************************************)
(* SpecInteractions: interaction_aa.main reads the benchmark file line by  *)
(* line and writes interactions_summary.txt; plt_inter.main reads that     *)
(* file and builds the matrix.                                             *)
(***************************************************************************)
InitInteractions ==
    /\ pc = "aggregate"
    /\ n_lines = 0 /\ sequences = 0 /\ last_seq = <<>> /\ inter_set = {}
    /\ interaction_counter = <<>> /\ inter_file = Absent /\ matrix = NoValue
    /\ SumIdle /\ CmpIdle
    /\ AlignIdle /\ ExtractIdle /\ PdbqtIdle /\ MainIdle /\ VisIdle /\ PredIdle

\* one data line: parse_benchmark_file keeps its sequence unless the line is
\* blank, short or its sequence empty; aggregate_interactions adds its set
Aggregate ==
    /\ pc = "aggregate" /\ n_lines < MaxBenchLines
    /\ \E line \in BenchLines :
          /\ n_lines' = n_lines + 1
          /\ IF line.cols < 2 \/ line.seq = <<>>
             THEN UNCHANGED <<sequences, last_seq, inter_set, interaction_counter>>
             ELSE /\ sequences' = sequences + 1
                  /\ last_seq' = line.seq
                  /\ inter_set' = get_interactions_from_sequence(line.seq)
                  /\ interaction_counter' =
                       CounterUpdate(interaction_counter,
                                     get_interactions_from_sequence(line.seq))
    /\ UNCHANGED <<pc, inter_file, matrix, sumVars, cmpVars, alignVars,
                   extractVars, pdbqtVars, mainVars, visVars, temp_file, concVars, predVars>>

\* end of the benchmark file: sys.exit(1) without sequences, else the
\* summary file is written
WriteInteractions ==
    /\ pc = "aggregate"
    /\ IF sequences = 0
       THEN pc' = "exit" /\ UNCHANGED inter_file
       ELSE /\ inter_file' =
                 [exists |-> TRUE,
                  content |-> write_interactions(interaction_counter,
                                                 DOMAIN interaction_counter)]
            /\ pc' = "written"
    /\ UNCHANGED <<n_lines, sequences, last_seq, inter_set, interaction_counter,
                   matrix, sumVars, cmpVars, alignVars, extractVars, pdbqtVars,
                   mainVars, visVars, temp_file, concVars, predVars>>

(***************************************************************************)
(* plt_inter.py                                                            *)
(***************************************************************************)
ALL_AMINO_ACIDS ==
    <<"A", "C", "D", "E", "F", "G", "H", "I", "K", "L",
      "M", "N", "P", "Q", "R", "S", "T", "V", "W", "Y">>

\* read_interactions: (aa1, aa2, count) of every line with a two-letter
\* interaction and a numeric count
read_interactions(file) ==
    IF ~file.exists THEN Raise("FileNotFoundError")
    ELSE List([k \in 1..Len(file.content) |->
                  [aa1 |-> file.content[k].interaction[1],
                   aa2 |-> file.content[k].interaction[2],
                   count |-> file.content[k].count]])

\* aa_index, as a position of the list (0 when the letter is not in it)
IndexOf(all_aas, aa) ==
    IF \E i \in 1..Len(all_aas) : all_aas[i] = aa
    THEN CHOOSE i \in 1..Len(all_aas) :
            all_aas[i] = aa /\ \A h \in i + 1..Len(all_aas) : all_aas[h] # aa
    ELSE 0

Zeros(n) == [i \in 1..n |-> [j \in 1..n |-> 0]]

\* a matrix filled on one side only
RECURSIVE BuildLoopOneSided(_, _, _, _)
BuildLoopOneSided(interactions, all_aas, k, m) ==
    IF k > Len(interactions) THEN m
    ELSE LET i == IndexOf(all_aas, interactions[k].aa1)
             j == IndexOf(all_aas, interactions[k].aa2)
         IN IF i = 0 \/ j = 0 THEN BuildLoopOneSided(interactions, all_aas, k + 1, m)
            ELSE BuildLoopOneSided(interactions, all_aas, k + 1,
                     [m EXCEPT ![i][j] = @ + interactions[k].count])

build_interaction_matrix_one_sided(interactions, all_aas) ==
    BuildLoopOneSided(interactions, all_aas, 1, Zeros(Len(all_aas)))

RECURSIVE BuildLoop(_, _, _, _)
BuildLoop(interactions, all_aas, k, m) ==
    IF k > Len(interactions) THEN m
    ELSE LET i == IndexOf(all_aas, interactions[k].aa1)
             j == IndexOf(all_aas, interactions[k].aa2)
             count == interactions[k].count
         IN IF i = 0 \/ j = 0 THEN BuildLoop(interactions, all_aas, k + 1, m)
            ELSE LET m1 == [m EXCEPT ![i][j] = @ + count]
                     m2 == IF i # j THEN [m1 EXCEPT ![j][i] = @ + count] ELSE m1
                 IN BuildLoop(interactions, all_aas, k + 1, m2)

build_interaction_matrix(interactions, all_aas) ==
    BuildLoop(interactions, all_aas, 1, Zeros(Len(all_aas)))

\* plt_inter.main
PltInterMain ==
    /\ pc = "written"
    /\ LET interactions == read_interactions(inter_file)
       IN IF interactions.items = <<>>
          THEN pc' = "no_interactions" /\ UNCHANGED matrix
          ELSE /\ matrix' = build_interaction_matrix(interactions.items,
                                                     ALL_AMINO_ACIDS)
               /\ pc' = "plotted"
    /\ UNCHANGED <<n_lines, sequences, last_seq, inter_set, interaction_counter,
                   inter_file, sumVars, cmpVars, alignVars, extractVars, pdbqtVars,
                   mainVars, visVars, temp_file, concVars, predVars>>

NextInteractions == Aggregate \/ WriteInteractions \/ PltInterMain

SpecInteractions == InitInteractions /\ [][NextInteractions]_vars

\* the letters a and b meet at positions i < j of seq, in either order
Meet(seq, a, b, i, j) ==
    /\ i < j
    /\ (seq[i] = a /\ seq[j] = b) \/ (seq[i] = b /\ seq[j] = a)

\* (i, j) comes before (h, k) when scanning i, then j, in increasing order
Before(i, j, h, k) == i < h \/ (i = h /\ j < k)

\* C19: the set get_interactions_from_sequence returns holds, for every
\* unordered pair of letters occurring at positions i < j, exactly one of
\* a+b / b+a, namely the orientation met first, never both for a # b, and
\* nothing for a pair that does not occur; hence the Counter grows by at
\* most 1 per interaction string per sequence.
C19_OneOrientationPerPair ==
    LET pos == 1..Len(last_seq)
    IN /\ \A a \in Letters, b \in Letters :
            IF \E i \in pos, j \in pos : Meet(last_seq, a, b, i, j)
            THEN /\ <<a, b>> \in inter_set \/ <<b, a>> \in inter_set
                 /\ a # b => ~(<<a, b>> \in inter_set /\ <<b, a>> \in inter_set)
                 /\ \E i \in pos, j \in pos :
                       /\ Meet(last_seq, a, b, i, j)
                       /\ \A h \in pos, k \in pos :
                             Meet(last_seq, a, b, h, k) => ~Before(h, k, i, j)
                       /\ <<last_seq[i], last_seq[j]>> \in inter_set
            ELSE <<a, b>> \notin inter_set /\ <<b, a>> \notin inter_set
       /\ inter_set \subseteq Letters \X Letters
       /\ \A key \in DOMAIN interaction_counter :
             1 <= interaction_counter[key] /\ interaction_counter[key] <= sequences

\* one sequence raises every count by 0 or 1
C19_AtMostOnePerSequence ==
    [][\A key \in DOMAIN interaction_counter' :
          interaction_counter'[key]
          - (IF key \in DOMAIN interaction_counter THEN interaction_counter[key] ELSE 0)
          \in (IF sequences' = sequences THEN {0} ELSE {0, 1})]_vars

C19_Witness ==
    /\ last_seq = <<"C", "A", "C">>
    /\ inter_set = { <<"C", "A">>, <<"C", "C">> }
    /\ sequences = 2
    /\ interaction_counter[<<"C", "A">>] = 1
    /\ <<"A", "C">> \in DOMAIN interaction_counter

\* the list plt_inter.main hands to build_interaction_matrix
Interactions == read_interactions(inter_file).items

\* the sum of the counts of the entries naming aa1, aa2 in this order
CountOf(aa1, aa2) ==
    SumInt([k \in 1..Len(Interactions) |->
               IF Interactions[k].aa1 = aa1 /\ Interactions[k].aa2 = aa2
               THEN Interactions[k].count ELSE 0])

RECURSIVE InList(_, _)
InList(k, all_aas) ==
    IF k > Len(Interactions) THEN <<>>
    ELSE (IF IndexOf(all_aas, Interactions[k].aa1) # 0
             /\ IndexOf(all_aas, Interactions[k].aa2) # 0
          THEN <<Interactions[k]>> ELSE <<>>) \o InList(k + 1, all_aas)

\* C20: build_interaction_matrix returns a symmetric matrix: cell (i, j)
\* equals cell (j, i); an off-diagonal cell is the sum of the counts of both
\* orientations of its letter pair, a diagonal cell adds each same-letter
\* count once, and entries naming a letter outside the list change nothing.
C20_SymmetricMatrix ==
    pc = "plotted"
    => /\ \A i, j \in 1..Len(ALL_AMINO_ACIDS) :
             /\ matrix[i][j] = matrix[j][i]
             /\ matrix[i][j] =
                  IF i = j THEN CountOf(ALL_AMINO_ACIDS[i], ALL_AMINO_ACIDS[i])
                  ELSE CountOf(ALL_AMINO_ACIDS[i], ALL_AMINO_ACIDS[j])
                       + CountOf(ALL_AMINO_ACIDS[j], ALL_AMINO_ACIDS[i])
       /\ matrix = build_interaction_matrix(InList(1, ALL_AMINO_ACIDS),
                                            ALL_AMINO_ACIDS)

C20_Witness ==
    /\ pc = "plotted"
    /\ matrix[1][2] = 2 /\ matrix[2][1] = 2 /\ matrix[1][1] = 1
    /\ CountOf("A", "C") = 1 /\ CountOf("C", "A") = 1
    /\ CountOf("A", "X") = 1 /\ Len(InList(1, ALL_AMINO_ACIDS)) < Len(Interactions)

(***************************************************************************)
(* vqe_prediction.py: pick_unique_fragments.  A fragment is the dictionary *)
(* parse_txt_file builds; the model keeps its pdb_id and its sequence.     *)
(***************************************************************************)
MaxFragments == 3  \* fragments of the TXT file
MaxCount == 3      \* largest max_count handed to pick_unique_fragments

Fragment(pdb_id, sequence) == [pdb_id |-> pdb_id, sequence |-> sequence]

FragmentIds == {"1abc", "2xyz", "3def"}

FragmentSet == {Fragment(id, seq) : id \in FragmentIds, seq \in {"K", "G"}}

FragmentLists == UNION {[1..n -> FragmentSet] : n \in 0..MaxFragments}

\* the for loop of pick_unique_fragments from fragment i on: the length test
\* runs at the end of the body, after the append
RECURSIVE PickLoop(_, _, _, _, _)
PickLoop(fragments, i, selected, used_pdb_ids, max_count) ==
    IF i > Len(fragments) THEN selected
    ELSE LET frag == fragments[i]
             fresh == frag.pdb_id \notin used_pdb_ids
             sel == IF fresh THEN Append(selected, frag) ELSE selected
             used == IF fresh THEN used_pdb_ids \cup {frag.pdb_id}
                     ELSE used_pdb_ids
         IN  IF Len(sel) >= max_count THEN sel
             ELSE PickLoop(fragments, i + 1, sel, used, max_count)

pick_unique_fragments(fragments, max_count) ==
    PickLoop(fragments, 1, <<>>, {}, max_count)

InitPick ==
    /\ pc = "pick"
    /\ all_fragments \in FragmentLists
    /\ max_fragments \in 0..MaxCount
    /\ selected_fragments = NoValue
    /\ log_files = <<>> /\ n_parsed = 0 /\ summary_dict = <<>>
    /\ log_summary = Absent
    /\ SumIdle /\ CmpIdle /\ InterIdle
    /\ AlignIdle /\ ExtractIdle /\ PdbqtIdle /\ MainIdle /\ VisIdle

\* vqe_prediction.main: selected_fragments = pick_unique_fragments(...)
PickUnique ==
    /\ pc = "pick"
    /\ selected_fragments' = pick_unique_fragments(all_fragments, max_fragments)
    /\ pc' = "picked"
    /\ UNCHANGED <<all_fragments, max_fragments, log_files, n_parsed,
                   summary_dict, log_summary, sumVars, cmpVars, interVars,
                   alignVars, extractVars, pdbqtVars, mainVars, visVars,
                   temp_file, concVars>>

NextPick == PickUnique

SpecPick == InitPick /\ [][NextPick]_vars

\* the fragments of the input that are the first of their pdb_id, in input
\* order
FirstOccurrences(fragments) ==
    LET First(i) == \A j \in 1..(i - 1) : fragments[j].pdb_id # fragments[i].pdb_id
        RECURSIVE Keep(_)
        Keep(i) == IF i > Len(fragments) THEN <<>>
                   ELSE IF First(i) THEN <<fragments[i]>> \o Keep(i + 1)
                   ELSE Keep(i + 1)
    IN  Keep(1)

IsPrefix(s, t) == Len(s) <= Len(t) /\ \A i \in 1..Len(s) : s[i] = t[i]

\* C21: the result of pick_unique_fragments is in input order, holds the
\* first occurrence of each pdb_id, has pairwise distinct pdb_ids and, for
\* every max_count >= 0, at most max_count elements.
C21_PickUnique ==
    pc = "picked" =>
        /\ IsPrefix(selected_fragments, FirstOccurrences(all_fragments))
        /\ \A i, j \in 1..Len(selected_fragments) :
              i # j => selected_fragments[i].pdb_id # selected_fragments[j].pdb_id
        /\ Len(selected_fragments) <= max_fragments

\* C21, for max_count >= 1: the result is the first max_count first
\* occurrences, all of them when there are fewer.
C21_PositiveCount ==
    (pc = "picked" /\ max_fragments >= 1) =>
        /\ IsPrefix(selected_fragments, FirstOccurrences(all_fragments))
        /\ Len(selected_fragments) =
              Min(max_fragments, Len(FirstOccurrences(all_fragments)))

\* C21, for max_count = 0: one fragment is returned unless the input is empty.
C21_ZeroCountKeepsOne ==
    (pc = "picked" /\ max_fragments = 0) =>
        Len(selected_fragments) = Min(1, Len(all_fragments))

(***************************************************************************)
(* read_log.py.  A line of a log file is classified by the regular         *)
(* expression of parse_log_file it matches; s is the captured text or      *)
(* pdb_id, v the captured number (costs and energies in tenths).  pdb_ids  *)
(* are numbered in their sorting order.                                    *)
(***************************************************************************)
MaxLogFiles == 2   \* files of LOG_FOLDER
MaxLogIds == 2     \* distinct pdb_ids of the log files

LogIds == 1..MaxLogIds

LogLine(t, id, s, v) == [t |-> t, id |-> id, s |-> s, v |-> v]

Start(id) == LogLine("start", id, "", 0)     \* === Processing protein id ===
SeqLine(s) == LogLine("seq", 0, s, 0)        \* Residue sequence: s
LenLine(n) == LogLine("len", 0, "", n)       \* Sequence length: n
QubitsLine(n) == LogLine("qubits", 0, "", n) \* Number of qubits: n
CostLine(v) == LogLine("cost", 0, "", v)     \* ... [Current cost: v]
BadCostLine == LogLine("cost", 0, "1.2.3", 0) \* matched, float() raises
Top1Line(v) == LogLine("top1", 0, "", v)     \* Top 1 best energy = v, ...
EndLine(id) == LogLine("end", id, "", 0)     \* Finished processing: id
OtherLine == LogLine("other", 0, "", 0)      \* blank or any other line

LogFile(ext, lines) == [ext |-> ext, lines |-> lines]

\* float(text) of a number written with one decimal
LogFloat(tenths) == Frac(tenths, 10)

PyInt(n) == [kind |-> "int", v |-> n]

NewFragment(pdb_id) ==
    [pdb_id |-> pdb_id, sequence |-> "", seq_length |-> None, qubits |-> None,
     top1_energy |-> None, cost_values |-> <<>>]

\* the for loop of parse_log_file from line i on, then the final append
RECURSIVE ParseLogLoop(_, _, _, _)
ParseLogLoop(lines, i, frags, current_data) ==
    IF i > Len(lines)
    THEN IF current_data # None THEN Append(frags, current_data) ELSE frags
    ELSE LET line == lines[i] IN
         IF line.t = "start"
         THEN ParseLogLoop(lines, i + 1,
                  IF current_data # None THEN Append(frags, current_data)
                  ELSE frags,
                  NewFragment(line.id))
         ELSE IF current_data = None
         THEN ParseLogLoop(lines, i + 1, frags, current_data)
         ELSE IF line.t = "seq"
         THEN ParseLogLoop(lines, i + 1, frags,
                  [current_data EXCEPT !.sequence = line.s])
         ELSE IF line.t = "len"
         THEN ParseLogLoop(lines, i + 1, frags,
                  [current_data EXCEPT !.seq_length = PyInt(line.v)])
         ELSE IF line.t = "qubits"
         THEN ParseLogLoop(lines, i + 1, frags,
                  [current_data EXCEPT !.qubits = PyInt(line.v)])
         ELSE IF line.t = "cost"
         THEN ParseLogLoop(lines, i + 1, frags,
                  IF line.s = ""
                  THEN [current_data EXCEPT
                          !.cost_values = Append(@, LogFloat(line.v))]
                  ELSE current_data)
         ELSE IF line.t = "top1"
         THEN ParseLogLoop(lines, i + 1, frags,
                  [current_data EXCEPT !.top1_energy = LogFloat(line.v)])
         ELSE IF line.t = "end"
         THEN ParseLogLoop(lines, i + 1, Append(frags, current_data), None)
         ELSE ParseLogLoop(lines, i + 1, frags, current_data)

parse_log_file(file) == ParseLogLoop(file.lines, 1, <<>>, None)

\* main, lines 156-163, with the first fragment of a pdb_id kept
RECURSIVE MergeLoop_keep_first(_, _, _)
MergeLoop_keep_first(dict, fragments, i) ==
    IF i > Len(fragments) THEN dict
    ELSE MergeLoop_keep_first(
             IF fragments[i].pdb_id \in DOMAIN dict THEN dict
             ELSE (fragments[i].pdb_id :> fragments[i]) @@ dict,
             fragments, i + 1)

\* main, lines 156-163: both branches assign the fragment
RECURSIVE MergeLoop(_, _, _)
MergeLoop(dict, fragments, i) ==
    IF i > Len(fragments) THEN dict
    ELSE MergeLoop((fragments[i].pdb_id :> fragments[i]) @@ dict,
                   fragments, i + 1)

\* max(cost_vals), min(cost_vals)
FracLeq(a, b) == a.num * b.den <= b.num * a.den
max(values) ==
    values[CHOOSE i \in 1..Len(values) :
              \A j \in 1..Len(values) : FracLeq(values[j], values[i])]
min(values) ==
    values[CHOOSE i \in 1..Len(values) :
              \A j \in 1..Len(values) : FracLeq(values[i], values[j])]
FracSub(a, b) == Frac(a.num * b.den - b.num * a.den, a.den * b.den)

\* f"{x:.6f}": the number of millionths, rounded
Format6(num, den) == (2000000 * num + den) \div (2 * den)
Num6(millionths) == [t |-> "num6", s |-> "", v |-> millionths]
Fmt6(x) == Num6(Format6(x.num, x.den))

\* main, lines 168-182: the tuple of one pdb_id
final_record(data) ==
    LET cost_vals == data.cost_values
        cost_max == IF cost_vals # <<>> THEN max(cost_vals) ELSE None
        cost_range == IF cost_vals # <<>>
                      THEN FracSub(max(cost_vals), min(cost_vals)) ELSE None
    IN  [pdb_id |-> data.pdb_id, seq |-> data.sequence,
         seq_len |-> data.seq_length, qubits |-> data.qubits,
         top1 |-> data.top1_energy, cost_max |-> cost_max,
         cost_range |-> cost_range]

\* main, lines 194-200: the output line of one tuple, column by column
out_line(r) ==
    <<I(r.pdb_id), T(r.seq),
      IF r.seq_len # None THEN I(r.seq_len.v) ELSE T(""),
      IF r.qubits # None THEN I(r.qubits.v) ELSE T(""),
      IF r.top1 # None THEN Fmt6(r.top1) ELSE T(""),
      IF r.cost_max # None THEN Fmt6(r.cost_max) ELSE T(""),
      IF r.cost_range # None THEN Fmt6(r.cost_range) ELSE T("")>>

LogHeader ==
    <<T("pdb_id"), T("Residue_sequence"), T("Sequence_length"),
      T("Number_of_qubits"), T("Top1_best_energy"), T("Cost_max"),
      T("Cost_range")>>

\* final_records.sort(key=lambda x: x[0]) and the write loop
RECURSIVE WriteLoop(_, _)
WriteLoop(dict, ids) ==
    IF ids = {} THEN <<>>
    ELSE LET pdb_id == CHOOSE p \in ids : \A q \in ids : p <= q
         IN <<out_line(final_record(dict[pdb_id]))>>
            \o WriteLoop(dict, ids \ {pdb_id})

\* the files a listing of LOG_FOLDER may hold
LogFileSet ==
    UNION {
      { LogFile("log", <<Start(x), SeqLine("KIG"), LenLine(3), QubitsLine(8),
                         CostLine(50), CostLine(25), CostLine(95),
                         Top1Line(41), EndLine(x)>>),
        LogFile("out", <<Start(x), SeqLine("G")>>),
        LogFile("out", <<Start(x), SeqLine("A"), Start(y), CostLine(-15),
                         CostLine(20), EndLine(y)>>),
        LogFile("log", <<SeqLine("Q"), CostLine(70), Start(x), BadCostLine,
                         Top1Line(-20), EndLine(y), CostLine(40)>>),
        LogFile("txt", <<Start(x), LenLine(5), EndLine(x)>>),
        LogFile("log", <<OtherLine>>) } : x, y \in LogIds }

LogListings == UNION {[1..n -> LogFileSet] : n \in 0..MaxLogFiles}

(***************************************************************************)
(* SpecReadLog: read_log.main, one file of the listing per step.           *)
(***************************************************************************)
InitReadLog ==
    /\ pc = "listdir"
    /\ log_files \in LogListings
    /\ n_parsed = 0 /\ summary_dict = <<>> /\ log_summary = Absent
    /\ all_fragments = <<>> /\ max_fragments = 0 /\ selected_fragments = NoValue
    /\ SumIdle /\ CmpIdle /\ InterIdle
    /\ AlignIdle /\ ExtractIdle /\ PdbqtIdle /\ MainIdle /\ VisIdle

\* one turn of the loop over os.listdir(LOG_FOLDER)
ReadLogFile ==
    /\ pc = "listdir" /\ n_parsed < Len(log_files)
    /\ n_parsed' = n_parsed + 1
    /\ LET file == log_files[n_parsed + 1] IN
         IF file.ext \notin {"log", "out"}
         THEN UNCHANGED summary_dict
         ELSE summary_dict' = MergeLoop(summary_dict, parse_log_file(file), 1)
    /\ UNCHANGED <<pc, log_files, log_summary, all_fragments, max_fragments,
                   selected_fragments, sumVars, cmpVars, interVars, alignVars,
                   extractVars, pdbqtVars, mainVars, visVars, temp_file,
                   concVars>>

\* after the loop: the records are built, sorted and written
WriteLogSummary ==
    /\ pc = "listdir" /\ n_parsed = Len(log_files)
    /\ log_summary' =
         [exists |-> TRUE,
          content |-> <<LogHeader>> \o WriteLoop(summary_dict, DOMAIN summary_dict)]
    /\ pc' = "log_written"
    /\ UNCHANGED <<log_files, n_parsed, summary_dict, all_fragments,
                   max_fragments, selected_fragments, sumVars, cmpVars,
                   interVars, alignVars, extractVars, pdbqtVars, mainVars,
                   visVars, temp_file, concVars>>

NextReadLog == ReadLogFile \/ WriteLogSummary

SpecReadLog == InitReadLog /\ [][NextReadLog]_vars

\* the fragments main has merged, in processing order
RECURSIVE ProcessedUpTo(_)
ProcessedUpTo(n) ==
    IF n = 0 THEN <<>>
    ELSE ProcessedUpTo(n - 1) \o
         (IF log_files[n].ext \in {"log", "out"}
          THEN parse_log_file(log_files[n]) ELSE <<>>)

Processed == ProcessedUpTo(n_parsed)

\* the pdb_ids of the "Processing protein" lines of the parsed files
IdsFound ==
    {log_files[n].lines[i].id :
        <<n, i>> \in {<<m, k>> \in (1..Len(log_files)) \X (1..20) :
                        /\ log_files[m].ext \in {"log", "out"}
                        /\ k <= Len(log_files[m].lines)
                        /\ log_files[m].lines[k].t = "start"}}

LogData == Tail(log_summary.content)

LastFragment(id) ==
    Processed[CHOOSE i \in 1..Len(Processed) :
                 /\ Processed[i].pdb_id = id
                 /\ \A j \in (i + 1)..Len(Processed) : Processed[j].pdb_id # id]

Tenths(values) == {values[i].num : i \in 1..Len(values)}

\* C22: read_log.main writes one data line per distinct pdb_id found in
\* the parsed files, ascending by pdb_id; every column of the line comes
\* from the fragment of that pdb_id processed last; cost_max and cost_range
\* are the maximum and maximum minus minimum of its cost values, printed
\* with six decimals, and both are empty when it has none.
C22_OneLinePerId ==
    pc = "log_written" =>
        /\ log_summary.content[1] = LogHeader
        /\ \A i, j \in 1..Len(LogData) : i < j => LogData[i][1].v < LogData[j][1].v
        /\ {LogData[i][1].v : i \in 1..Len(LogData)} = IdsFound
        /\ \A i \in 1..Len(LogData) :
              LET f == LastFragment(LogData[i][1].v)
                  hi == MaxOf(Tenths(f.cost_values))
                  lo == -MaxOf({-t : t \in Tenths(f.cost_values)})
              IN  /\ LogData[i][2] = T(f.sequence)
                  /\ LogData[i][3] = (IF f.seq_length = None THEN T("")
                                      ELSE I(f.seq_length.v))
                  /\ LogData[i][4] = (IF f.qubits = None THEN T("")
                                      ELSE I(f.qubits.v))
                  /\ LogData[i][5] = (IF f.top1_energy = None THEN T("")
                                      ELSE Num6(f.top1_energy.num * 100000))
                  /\ IF f.cost_values = <<>>
                     THEN LogData[i][6] = T("") /\ LogData[i][7] = T("")
                     ELSE /\ LogData[i][6] = Num6(hi * 100000)
                          /\ LogData[i][7] = Num6((hi - lo) * 100000)

\* a pdb_id met in two fragments, the earlier with cost values and a length,
\* the later without, and another line with a cost range above zero
C22_Witness ==
    /\ pc = "log_written"
    /\ \E i, j \in 1..Len(Processed) :
          /\ i < j /\ Processed[i].pdb_id = Processed[j].pdb_id
          /\ Processed[j] = LastFragment(Processed[j].pdb_id)
          /\ Processed[i].cost_values # <<>> /\ Processed[i].seq_length # None
          /\ Processed[j].cost_values = <<>> /\ Processed[j].seq_length = None
    /\ \E i \in 1..Len(LogData) :
          LogData[i][7].t = "num6" /\ LogData[i][7].v > 0

(***************************************************************************)
(* The batch drivers, record by record (SpecMain).                         *)
(***************************************************************************)
CannotCompute == "cannot compute RMSD"

RealMissing == IF driver = "Q" THEN "real PDB not found" ELSE "real file not found"

NAReasons ==
    (IF driver = "Q" THEN {"not in benchmark index"} ELSE {})
    \cup {"invalid residue range", "predicted file not found", RealMissing,
          Mismatch, CannotCompute}

IsNumericLine(line) == line.reason = "" /\ Len(line.args) = 1

Judged == pc \in {"loop", "done"} /\ n_done >= 1 /\ rec # NoValue

RangeInvalid == rec.end_res - rec.start_res + 1 <= 0

\* C24: the checks of a record run in the order index, residue range,
\* predicted file, real file, atom counts, and the first that fails gives the
\* reason of the line; a record rejected by one of the first four has had no
\* file parsed.  RMSD_af.main has the same order without the index check.
C24_FirstFailingCheckDecides ==
    Judged =>
        LET reason == LastLine.reason IN
        /\ ~rec.in_index => reason = "not in benchmark index"
        /\ (rec.in_index /\ RangeInvalid) => reason = "invalid residue range"
        /\ (rec.in_index /\ ~RangeInvalid /\ ~rec.pred_exists)
              => reason = "predicted file not found"
        /\ (rec.in_index /\ ~RangeInvalid /\ rec.pred_exists /\ ~rec.real_exists)
              => reason = RealMissing
        /\ (Extracted /\ (NumPred # NumReal \/ NumPred = 0)) <=> reason = Mismatch
        /\ reason \in {"not in benchmark index", "invalid residue range",
                       "predicted file not found", RealMissing}
              => parsed = {}
        /\ parsed # {} <=> Extracted

\* an indexed record that fails the range test and both file tests
C24_Witness ==
    /\ Judged /\ driver = "Q"
    /\ rec.in_index /\ RangeInvalid /\ ~rec.pred_exists /\ ~rec.real_exists
    /\ LastLine.reason = "invalid residue range" /\ parsed = {}

\* a record outside the index is rejected before its files are looked at
C24_WitnessUnindexed ==
    /\ Judged /\ driver = "Q"
    /\ ~rec.in_index /\ rec.pred_exists /\ rec.real_exists
    /\ LastLine.reason = "not in benchmark index" /\ parsed = {}

\* C25: the line 'N/A (cannot compute RMSD)' is never written: whenever a
\* driver calls compute_rmsd the two lists are non-empty and of equal
\* length, and compute_rmsd does not return None for them.
C25_CannotComputeNeverWritten ==
    /\ \A i \in 1..Len(outf) : outf[i].reason # CannotCompute
    /\ (Judged /\ Extracted /\ LastLine.reason # Mismatch) =>
          /\ NumPred = NumReal /\ NumPred > 0
          /\ compute_rmsd(
                parse_pdbqt(rec.pred_file, rec.end_res - rec.start_res + 1).items,
                parse_real_pdb(rec.real_file, rec.chain_id, rec.start_res,
                               rec.end_res)) # None

\* both extractions of RMSD_af.main came back empty: the lengths are equal,
\* compute_rmsd would return None, and the driver reports the counts
C25_Witness ==
    /\ Judged /\ driver = "af" /\ Extracted
    /\ NumPred = 0 /\ NumReal = 0
    /\ LastLine = NA(n_done, Mismatch, <<0, 0>>)

(***************************************************************************)
(* The length of the windowed extraction (SpecExtract).                    *)
(***************************************************************************)
SingleModelFile ==
    \A i \in 1..Len(pdb_file) : pdb_file[i].model = pdb_file[1].model

\* no two residues of a chain of a model share their sequence number
NoInsertionCodes ==
    \A i, j \in 1..Len(pdb_file) :
        (i # j /\ pdb_file[i].model = pdb_file[j].model
               /\ pdb_file[i].chain = pdb_file[j].chain)
        => pdb_file[i].resseq # pdb_file[j].resseq

WindowSize == end_res - start_res + 1

\* C26: parse_real_pdb never returns more than end_res - start_res + 1
\* coordinates, for every structure, chain and window with
\* start_res <= end_res.
C26_WindowBound ==
    (coords.kind = "list" /\ start_res <= end_res)
    => Len(coords.items) <= WindowSize

\* C26 on files with one model whose residue numbers are unique per chain
C26_BoundOnPlainFiles ==
    (coords.kind = "list" /\ start_res <= end_res
       /\ SingleModelFile /\ NoInsertionCodes)
    => Len(coords.items) <= WindowSize

\* C26 restricted to files with one model; refuted, since residues that
\* differ in their insertion code alone are all returned
C26_BoundOnSingleModel ==
    (coords.kind = "list" /\ start_res <= end_res /\ SingleModelFile)
    => Len(coords.items) <= WindowSize

\* C26 restricted to files without insertion codes; refuted, since the
\* window of every model is returned
C26_BoundWithoutInsertionCodes ==
    (coords.kind = "list" /\ start_res <= end_res /\ NoInsertionCodes)
    => Len(coords.items) <= WindowSize

====
